---- MODULE Spec2Model ----
(***************************************************************************)
(* State-machine model of the server-side core of ado-analytics:          *)
(*   - the resilient fetch layer (app/services/http.server.ts):            *)
(*     createLimit's counting semaphore and adoFetchJson's retry loop;     *)
(*   - the TTL/LRU cache with request coalescing                           *)
(*     (app/services/cache.server.ts).                                     *)
(* Every await of the source is a suspension point: an action is the code  *)
(* that runs between two suspension points.                                *)
(***************************************************************************)
EXTENDS Integers, Sequences, FiniteSets, TLC

VARIABLES
    activeCount,   \* createLimit: activeCount
    queue,         \* createLimit: queue (call ids, head first)
    pendingNext,   \* queueMicrotask(next) jobs not yet run
    calls,         \* per adoFetchJson call: position in the retry loop and locals
    store,         \* cache.server.ts: store (Map in insertion order, oldest first)
    inFlight,      \* cache.server.ts: inFlight (key -> id of the load whose promise it holds)
    maxEntries,    \* cache.server.ts: maxEntries
    now,           \* Date.now() as seen by the cache
    loads,         \* loader invocations: the promise each returned and who awaits it
    op,            \* the operation of the cache that ran last, and what it returned
    pager,         \* ado.server.ts: a run of the loader of listWorkItemUpdatesPaged
    batch,         \* ado.server.ts: a call of getWorkItemsBatch
    lister,        \* ado.server.ts: what each loader of listPRReviewers received and threw
    sorter,        \* ado.server.ts: the updates collected by listWorkItemUpdatesPaged and their sort
    prs,           \* ado.server.ts: a run of the loader of listPullRequests
    graph,         \* the calls of listGraphUsers and what they asked for
    timeline,      \* workitem-timeline: a call of buildSegments
    metrics,       \* a call of computeWorkItemMetrics
    authored,      \* pr-authored-metrics: a call of computeAuthoredMetrics
    business,      \* business-time: a call of businessDuration
    rollups        \* people rollups: a call of computePersonRollups

httpVars == <<activeCount, queue, pendingNext, calls>>
cacheVars == <<store, inFlight, maxEntries, now, loads, op>>
clientVars == <<pager, batch, lister>>
reportVars == <<authored, business, rollups>>
analyticsVars == <<sorter, prs, graph, timeline, metrics, reportVars>>
exceptHttp == <<cacheVars, clientVars, analyticsVars>>
exceptCache == <<httpVars, clientVars, analyticsVars>>
vars == <<activeCount, queue, pendingNext, calls, store, inFlight, maxEntries, now, loads, op,
          pager, batch, lister, sorter, prs, graph, timeline, metrics,
          authored, business, rollups>>

(***************************************************************************)
(* Bounds of the model                                                     *)
(***************************************************************************)
\* number of adoFetchJson calls submitted in one run
MaxCalls == 3
\* APP_MAX_CONCURRENCY as configured for the run
MaxConcurrency == 2

\* number of loader invocations in one run
MaxLoads == 2

\* number of loader invocations in one run of the eviction scenario
MaxLruLoads == 3

\* number of adoFetchJson calls submitted in one run of the queueing scenario
MaxQueueCalls == 4

Calls == 1..MaxCalls
\* the calls of the queueing scenario
QueueCalls == 1..MaxQueueCalls
\* cache keys
Keys == {1, 2}
\* cache keys of the eviction scenario
LruKeys == {1, 2, 3}
\* values of Date.now() seen by the cache
Clock == {0, 1, 2}

\* a parse that fails yields NaN; a number n is held as <<n>>
NaN == <<>>
Num(n) == <<n>>
IsNaN(x) == x = <<>>

(***************************************************************************)
(* http.server.ts: constants                                               *)
(***************************************************************************)
DEFAULT_MAX_ATTEMPTS == 4
BASE_DELAY_MS == 300

\* createLimit(APP_MAX_CONCURRENCY || 6)
concurrency == MaxConcurrency

(***************************************************************************)
(* Inputs of the fetch layer                                               *)
(***************************************************************************)
\* HTTP statuses the remote answers with
Statuses == {200, 404, 429, 503}

\* Retry-After header values: the header text as a sequence of characters, and what
\* the platform's Date.parse returns for that text (ms since the epoch, or NaN).
\* The empty text stands for an absent header (null) as well as an empty one: the
\* code tests it with `if (retryAfterHeader)`.
NoHeader == [text |-> <<>>, dateMs |-> NaN]
RetryAfterHeaders ==
    { NoHeader,
      [text |-> <<"1">>, dateMs |-> NaN],
      [text |-> <<"0">>, dateMs |-> NaN],
      [text |-> <<"-", "2">>, dateMs |-> NaN],
      [text |-> <<"T", "h", "u", ",">>, dateMs |-> Num(2500)],
      [text |-> <<"s", "o", "o", "n">>, dateMs |-> NaN] }

\* values of Date.now() when a date-valued Retry-After is evaluated
NowValues == {1000, 3000}

\* values of Math.floor(Math.random() * 101)
JitterValues == {0, 37, 100}

(***************************************************************************)
(* Number.parseInt(text, 10)                                               *)
(***************************************************************************)
DigitValue(ch) ==
    CASE ch = "0" -> 0 [] ch = "1" -> 1 [] ch = "2" -> 2 [] ch = "3" -> 3
      [] ch = "4" -> 4 [] ch = "5" -> 5 [] ch = "6" -> 6 [] ch = "7" -> 7
      [] ch = "8" -> 8 [] ch = "9" -> 9 [] OTHER -> -1

RECURSIVE LeadingDigits(_, _, _)
\* value of the longest prefix of digits of s from position i on, NaN if there is none
LeadingDigits(s, i, acc) ==
    IF i > Len(s) \/ DigitValue(s[i]) < 0
    THEN acc
    ELSE LeadingDigits(s, i + 1,
                       Num((IF IsNaN(acc) THEN 0 ELSE acc[1] * 10) + DigitValue(s[i])))

RECURSIVE SkipSpaces(_, _)
SkipSpaces(s, i) ==
    IF i <= Len(s) /\ s[i] = " " THEN SkipSpaces(s, i + 1) ELSE i

ParseInt(s) ==
    LET i == SkipSpaces(s, 1)
        neg == i <= Len(s) /\ s[i] = "-"
        signed == i <= Len(s) /\ s[i] \in {"-", "+"}
        n == LeadingDigits(s, IF signed THEN i + 1 ELSE i, NaN)
    IN IF IsNaN(n) THEN NaN ELSE IF neg THEN Num(0 - n[1]) ELSE n

Max(a, b) == IF a >= b THEN a ELSE b

RECURSIVE Pow2(_)
Pow2(n) == IF n = 0 THEN 1 ELSE 2 * Pow2(n - 1)

\* computeRetryDelayMs with the exponent counted from 0 instead of from the attempt
computeRetryDelayMsFromZero(attempt, retryAfterHeader, dateNow, jitter) ==
    LET seconds == ParseInt(retryAfterHeader.text)
        dateMs == retryAfterHeader.dateMs
    IN IF retryAfterHeader.text # <<>> /\ ~IsNaN(seconds)
       THEN Max(0, seconds[1] * 1000)
       ELSE IF retryAfterHeader.text # <<>> /\ ~IsNaN(dateMs)
       THEN Max(0, dateMs[1] - dateNow)
       ELSE BASE_DELAY_MS * Pow2(attempt - 1) + jitter

(***************************************************************************)
(* computeRetryDelayMs(attempt, retryAfterHeader); dateNow and jitter are  *)
(* the values Date.now() and Math.floor(Math.random() * 101) return.       *)
(***************************************************************************)
computeRetryDelayMs(attempt, retryAfterHeader, dateNow, jitter) ==
    LET seconds == ParseInt(retryAfterHeader.text)
        dateMs == retryAfterHeader.dateMs
    IN IF retryAfterHeader.text # <<>> /\ ~IsNaN(seconds)
       THEN Max(0, seconds[1] * 1000)
       ELSE IF retryAfterHeader.text # <<>> /\ ~IsNaN(dateMs)
       THEN Max(0, dateMs[1] - dateNow)
       ELSE BASE_DELAY_MS * Pow2(attempt) + jitter

\* next() taking the task queued last
nextLifo(ac, q) ==
    IF ac >= MaxConcurrency THEN [activeCount |-> ac, queue |-> q, run |-> 0]
    ELSE IF q = <<>> THEN [activeCount |-> ac, queue |-> q, run |-> 0]
    ELSE [activeCount |-> ac + 1, queue |-> SubSeq(q, 1, Len(q) - 1), run |-> q[Len(q)]]

\* next() with the capacity test off by one
nextOffByOne(ac, q) ==
    IF ac > MaxConcurrency THEN [activeCount |-> ac, queue |-> q, run |-> 0]
    ELSE IF q = <<>> THEN [activeCount |-> ac, queue |-> q, run |-> 0]
    ELSE [activeCount |-> ac + 1, queue |-> Tail(q), run |-> Head(q)]

(***************************************************************************)
(* createLimit: next().  Given the limiter's counter and queue, the        *)
(* counter and queue it leaves and the task it ran (0: none).              *)
(***************************************************************************)
next(ac, q) ==
    IF ac >= concurrency THEN [activeCount |-> ac, queue |-> q, run |-> 0]
    ELSE IF q = <<>> THEN [activeCount |-> ac, queue |-> q, run |-> 0]
    ELSE [activeCount |-> ac + 1, queue |-> Tail(q), run |-> Head(q)]

(***************************************************************************)
(* adoFetchJson: the call's record                                         *)
(***************************************************************************)
NoResult == [kind |-> "none", status |-> 0, url |-> 0, attempt |-> 0]

\* new AdoHttpError({status, url, method, attempt}); the url of call c is c
AdoHttpError(status, url, attempt) ==
    [kind |-> "AdoHttpError", status |-> status, url |-> url, attempt |-> attempt]

\* new AdoTimeoutError({status: 408, url, method, attempt})
AdoTimeoutError(url, attempt) ==
    [kind |-> "AdoTimeoutError", status |-> 408, url |-> url, attempt |-> attempt]

Returned(url, attempt) ==
    [kind |-> "ok", status |-> 200, url |-> url, attempt |-> attempt]

IdleCall ==
    [phase |-> "idle", attempt |-> 0, timedOut |-> FALSE, aborted |-> FALSE,
     status |-> 0, header |-> NoHeader, delayMs |-> 0, fetches |-> 0,
     result |-> NoResult, userAbort |-> "no"]

\* Fields of a call's record: phase is the await the task is suspended at ("fetch":
\* await fetch, "text": await res.text(), "json": await res.json(), "backoff": the
\* retry delay); attempt, timedOut, aborted (controller.signal.aborted) and delayMs
\* are the locals of the task; status and header are those of the last response
\* received; fetches counts the calls of fetch; result is what the call settled with;
\* userAbort tells whether init.signal has aborted and with which reason ("no",
\* "AbortError": the default reason, "other": a reason given by the caller).

\* the task body up to its first await: attempt = 1, timer armed, fetch issued
StartTask(call) ==
    [call EXCEPT !.phase = "fetch", !.attempt = 1, !.timedOut = FALSE, !.fetches = 1]

\* the catch block of the attempt (lines 184-193): err is what the try block threw
Catch(c, call, errIsAbort) ==
    IF call.timedOut \/ call.aborted \/ errIsAbort
    THEN AdoTimeoutError(c, call.attempt)
    ELSE AdoHttpError(500, c, call.attempt)

\* a settling whose finally block releases the slot without running next()
SettleNoWake(c, call, r) ==
    /\ activeCount' = activeCount - 1
    /\ calls' = [calls EXCEPT ![c] = [call EXCEPT !.phase = "done", !.result = r,
                                                  !.header = NoHeader, !.delayMs = 0]]
    /\ UNCHANGED <<queue, pendingNext>>

\* a settling whose finally block runs next() without releasing the slot
SettleKeepsSlot(c, call, r) ==
    LET n == next(activeCount, queue)
        done == [call EXCEPT !.phase = "done", !.result = r, !.header = NoHeader,
                             !.delayMs = 0]
    IN /\ activeCount' = n.activeCount
       /\ queue' = n.queue
       /\ calls' = IF n.run = 0
                   THEN [calls EXCEPT ![c] = done]
                   ELSE [calls EXCEPT ![c] = done, ![n.run] = StartTask(calls[n.run])]
       /\ UNCHANGED pendingNext

\* fn() settles with result r: .then(resolve).catch(reject), then the finally
\* block releases the slot and runs next()
Settle(c, call, r) ==
    LET n == next(activeCount - 1, queue)
        done == [call EXCEPT !.phase = "done", !.result = r, !.header = NoHeader,
                             !.delayMs = 0]
    IN /\ activeCount' = n.activeCount
       /\ queue' = n.queue
       /\ calls' = IF n.run = 0
                   THEN [calls EXCEPT ![c] = done]
                   ELSE [calls EXCEPT ![c] = done, ![n.run] = StartTask(calls[n.run])]
       /\ UNCHANGED pendingNext

\* a signal that the caller's cancellation does not reach
SignalAbortedByTimerOnly(call) == call.aborted

\* signal.aborted, signal being AbortSignal.any([userSignal, controller.signal])
SignalAborted(call) == call.aborted \/ call.userAbort # "no"

\* Timer and network callbacks are macrotasks: they run only once every queued
\* microtask has run.
MicrotasksDrained == pendingNext = 0

\* limit(fn): queue.push(task); queueMicrotask(next).  Calls are numbered in the
\* order they are submitted.
Submit(c) ==
    /\ calls[c].phase = "idle"
    /\ \A d \in QueueCalls : d < c => calls[d].phase # "idle"
    /\ queue' = Append(queue, c)
    /\ pendingNext' = pendingNext + 1
    /\ calls' = [calls EXCEPT ![c].phase = "queued"]
    /\ UNCHANGED activeCount

\* a queued next() microtask runs
NextMicrotask ==
    /\ pendingNext > 0
    /\ pendingNext' = pendingNext - 1
    /\ LET n == next(activeCount, queue)
       IN /\ activeCount' = n.activeCount
          /\ queue' = n.queue
          /\ calls' = IF n.run = 0 THEN calls
                      ELSE [calls EXCEPT ![n.run] = StartTask(calls[n.run])]

\* the retry test with the attempt bound off by one
ShouldRetryOneMore(status, attempt) ==
    (status = 429 \/ status >= 500) /\ attempt <= 4

\* the retry test taking every error status for retryable
ShouldRetryAnyError(status, attempt) ==
    status >= 400 /\ attempt < 4

\* shouldRetry && attempt < DEFAULT_MAX_ATTEMPTS (lines 174-175)
ShouldRetry(status, attempt) ==
    (status = 429 \/ status >= 500) /\ attempt < DEFAULT_MAX_ATTEMPTS

\* what follows the body read of a non-2xx response (lines 173-183)
AfterBody(c, call, dateNow, jitter) ==
       IF ShouldRetry(call.status, call.attempt)
       THEN /\ calls' = [calls EXCEPT ![c] =
                   [call EXCEPT !.phase = "backoff",
                                !.delayMs = computeRetryDelayMs(call.attempt, call.header,
                                                                dateNow, jitter)]]
            /\ UNCHANGED <<activeCount, queue, pendingNext>>
       ELSE \* throw new AdoHttpError({status, ...}) inside the try block
            Settle(c, call, Catch(c, call, FALSE))

\* await fetch(...) resolves with a response
FetchResponds(c, status, header) ==
    /\ MicrotasksDrained
    /\ calls[c].phase = "fetch"
    /\ ~SignalAborted(calls[c])
    /\ calls' = [calls EXCEPT ![c].status = status, ![c].header = header,
                              ![c].phase = IF status = 200 THEN "json" ELSE "text"]
    /\ UNCHANGED <<activeCount, queue, pendingNext>>

\* await fetch(...) rejects with a network error
FetchNetworkError(c) ==
    /\ MicrotasksDrained
    /\ calls[c].phase = "fetch"
    /\ ~SignalAborted(calls[c])
    /\ Settle(c, calls[c], Catch(c, calls[c], FALSE))

\* the attempt's timer fires (armed from the start of the attempt until clearTimeout)
Timeout(c, dateNow, jitter) ==
    /\ MicrotasksDrained
    /\ calls[c].phase \in {"fetch", "text"}
    /\ LET call == [calls[c] EXCEPT !.timedOut = TRUE, !.aborted = TRUE]
       IN IF calls[c].phase = "fetch"
          THEN \* fetch rejects with an AbortError
               Settle(c, call, Catch(c, call, TRUE))
          ELSE \* res.text() rejects; the inner catch ignores it
               AfterBody(c, call, dateNow, jitter)

\* await res.text() settles
BodyRead(c, dateNow, jitter) ==
    /\ MicrotasksDrained
    /\ calls[c].phase = "text"
    /\ AfterBody(c, calls[c], dateNow, jitter)

\* the backoff timer fires: continue with the next attempt
BackoffElapsed(c) ==
    /\ MicrotasksDrained
    /\ calls[c].phase = "backoff"
    /\ LET call == [calls[c] EXCEPT !.attempt = calls[c].attempt + 1, !.timedOut = FALSE,
                                    !.fetches = calls[c].fetches + 1, !.phase = "fetch",
                                    !.status = 0, !.header = NoHeader, !.delayMs = 0]
       IN IF SignalAborted(call)
          THEN \* fetch with an aborted signal rejects at once with the abort reason
               Settle(c, call, Catch(c, call, call.aborted \/ call.userAbort = "AbortError"))
          ELSE /\ calls' = [calls EXCEPT ![c] = call]
               /\ UNCHANGED <<activeCount, queue, pendingNext>>

\* init.signal aborts with the given reason while the call is under way
UserAbort(c, reason, dateNow, jitter) ==
    /\ MicrotasksDrained
    /\ calls[c].phase \in {"fetch", "text", "json", "backoff"}
    /\ calls[c].userAbort = "no"
    /\ LET call == [calls[c] EXCEPT !.userAbort = reason]
           wasAborted == SignalAborted(calls[c])
       IN IF wasAborted \/ ~SignalAborted(call) \/ call.phase = "backoff"
          THEN \* nothing is listening: the signal had aborted already, or the call is
               \* in its backoff wait
               /\ calls' = [calls EXCEPT ![c] = call]
               /\ UNCHANGED <<activeCount, queue, pendingNext>>
          ELSE IF call.phase = "text"
          THEN \* res.text() rejects; the inner catch ignores it
               AfterBody(c, call, dateNow, jitter)
          ELSE \* fetch, or res.json(), rejects with the abort reason
               Settle(c, call, Catch(c, call, reason = "AbortError"))

\* await res.json() resolves
JsonParsed(c) ==
    /\ MicrotasksDrained
    /\ calls[c].phase = "json"
    /\ Settle(c, calls[c], Returned(c, calls[c].attempt))

\* await res.json() rejects: the body is not JSON
JsonFails(c) ==
    /\ MicrotasksDrained
    /\ calls[c].phase = "json"
    /\ Settle(c, calls[c], Catch(c, calls[c], FALSE))

\* one step of call c, the remote answering from the given sets
HttpStep(c, statuses, headers, nows, jitters) ==
    \/ Submit(c)
    \/ \E status \in statuses, header \in headers : FetchResponds(c, status, header)
    \/ \E dateNow \in nows, jitter \in jitters : BodyRead(c, dateNow, jitter)
    \/ BackoffElapsed(c)
    \/ JsonParsed(c)

\* one step of call c in which something fails: the network, the body's JSON, or the
\* response or its body not arriving within the timeout
FaultStep(c, nows, jitters) ==
    \/ FetchNetworkError(c)
    \/ \E dateNow \in nows, jitter \in jitters : Timeout(c, dateNow, jitter)
    \/ JsonFails(c)

InitHttp ==
    /\ activeCount = 0
    /\ queue = <<>>
    /\ pendingNext = 0
    /\ calls = [c \in QueueCalls |-> IdleCall]

(***************************************************************************)
(* cache.server.ts                                                         *)
(***************************************************************************)
\* ttlMs arguments, in half milliseconds (3 is 1.5 ms), so that Math.floor matters
TtlHalfMs == {-2, 3}

\* maxEntries options given to configureCache, in halves (5 is 2.5)
MaxEntriesHalves == {1, 5}

\* Math.floor(h / 2) for h in halves
FloorHalf(h) == h \div 2

\* what a loader's promise settles with: the loader of load l resolves to l, resolves
\* to undefined, or rejects
Undefined == 0
Pending == [kind |-> "pending", value |-> 0]
Fulfilled(v) == [kind |-> "value", value |-> v]
Rejected == [kind |-> "fail", value |-> 0]

RECURSIVE IndexOfKey(_, _, _)
\* position of key in the store, 0 if absent
IndexOfKey(st, key, i) ==
    IF i > Len(st) THEN 0
    ELSE IF st[i].key = key THEN i
    ELSE IndexOfKey(st, key, i + 1)

StoreHas(st, key) == IndexOfKey(st, key, 1) # 0
StoreGet(st, key) == st[IndexOfKey(st, key, 1)]

\* store.delete(key)
StoreDelete(st, key) ==
    SelectSeq(st, LAMBDA e : e.key # key)

\* store.set(key, entry): an existing key keeps its place, a new key goes last
StoreSet(st, key, entry) ==
    IF StoreHas(st, key)
    THEN [i \in 1..Len(st) |-> IF st[i].key = key THEN entry ELSE st[i]]
    ELSE Append(st, entry)

\* touch(key, entry): move to the most-recently-used position
touch(st, key, entry) ==
    StoreSet(StoreDelete(st, key), key, entry)

RECURSIVE trimNewest(_, _)
\* an eviction that drops the most recently used entries
trimNewest(st, cap) ==
    IF Len(st) > cap THEN trimNewest(SubSeq(st, 1, Len(st) - 1), cap) ELSE st

RECURSIVE trim(_, _)
\* trim(): evict least-recently-used until within capacity
trim(st, cap) ==
    IF Len(st) > cap THEN trim(Tail(st), cap) ELSE st

\* the freshness test taking an entry at its expiry time for fresh
IsFreshInclusive(entry, t) ==
    entry.value # 0 /\ entry.expiresAt >= t

\* existing.value !== undefined && existing.expiresAt > now
IsFresh(entry, t) ==
    entry.value # Undefined /\ entry.expiresAt > t

\* The label of the last operation: for a getOrSet call the path it took, the load
\* whose promise it awaits or returns (0: none) and the value it returned at once;
\* for a step that settles callers, the load, what they received, and whether other
\* callers had joined that load.
NoOp ==
    [kind |-> "none", key |-> 0, bypass |-> FALSE, path |-> "none", load |-> 0,
     outcome |-> Pending, joined |-> FALSE]

GetOp(key, bypass, path, load, outcome) ==
    [kind |-> "getOrSet", key |-> key, bypass |-> bypass, path |-> path, load |-> load,
     outcome |-> outcome, joined |-> FALSE]

LoadOp(kind, l, load, outcome) ==
    [kind |-> kind, key |-> load.key, bypass |-> load.bypass, path |-> "none", load |-> l,
     outcome |-> outcome, joined |-> load.joined]

EnvOp(kind) ==
    [NoOp EXCEPT !.kind = kind]

\* a loader invocation: its promise (state), whether other callers returned that
\* promise (joined), and whether the call that started it has resumed (handled)
NewLoad(key, bypass, ttlHalfMs) ==
    [key |-> key, bypass |-> bypass, ttl |-> ttlHalfMs, state |-> Pending,
     joined |-> FALSE, handled |-> FALSE]

\* a load all of whose callers have settled: nothing refers to it any more
DoneLoad ==
    [key |-> 0, bypass |-> FALSE, ttl |-> 0, state |-> [kind |-> "done", value |-> 0],
     joined |-> FALSE, handled |-> TRUE]

\* a lookup that never finds a registered promise
PendingForNone(key) == 0

\* inFlight.get(key): the load whose promise is registered for key, 0 if none
PendingFor(key) == inFlight[key]

\* a call that never takes the bypass
BypassIgnored(bypass) == FALSE

\* if (opts?.bypass) (line 56)
BypassRequested(bypass) == bypass

\* getOrSet(key, ttlMs, loader, {bypass}) up to its first await (or its return), in a
\* run of at most limit loader invocations
getOrSetWithin(key, ttlHalfMs, bypass, limit) ==
    LET newLoad == Len(loads) + 1
        existing == StoreHas(store, key)
        pending == PendingFor(key)
    IN /\ IF BypassRequested(bypass)
          THEN \* return loader()
               /\ Len(loads) < limit
               /\ loads' = Append(loads, NewLoad(key, TRUE, ttlHalfMs))
               /\ op' = GetOp(key, TRUE, "bypass", newLoad, Pending)
               /\ UNCHANGED <<store, inFlight>>
          ELSE IF existing /\ IsFresh(StoreGet(store, key), now)
          THEN \* fresh value: touch and return it
               /\ store' = touch(store, key, StoreGet(store, key))
               /\ op' = GetOp(key, bypass, "hit", 0, Fulfilled(StoreGet(store, key).value))
               /\ UNCHANGED <<inFlight, loads>>
          ELSE IF pending # 0
          THEN \* expired entry dropped; return the in-flight promise
               /\ store' = StoreDelete(store, key)
               /\ loads' = [loads EXCEPT ![pending].joined = TRUE]
               /\ op' = GetOp(key, bypass, "join", pending, loads[pending].state)
               /\ UNCHANGED inFlight
          ELSE \* expired entry dropped; start a new load and await it
               /\ Len(loads) < limit
               /\ store' = StoreDelete(store, key)
               /\ loads' = Append(loads, NewLoad(key, FALSE, ttlHalfMs))
               /\ inFlight' = [inFlight EXCEPT ![key] = newLoad]
               /\ op' = GetOp(key, bypass, "load", newLoad, Pending)
       /\ UNCHANGED <<maxEntries, now>>

getOrSet(key, ttlHalfMs, bypass) ==
    getOrSetWithin(key, ttlHalfMs, bypass, MaxLoads)

\* the promise returned by the loader of load l settles with out: the callers that
\* returned that very promise (a bypass caller, the callers that joined) settle with it
LoaderSettles(l, out) ==
    /\ l \in 1..Len(loads)
    /\ loads[l].state = Pending
    /\ loads' = [loads EXCEPT ![l] = IF loads[l].bypass THEN DoneLoad
                                     ELSE [loads[l] EXCEPT !.state = out]]
    /\ op' = LoadOp("settle", l, loads[l], out)
    /\ UNCHANGED <<store, inFlight, maxEntries, now>>

\* a resumption that swallows the loader's failure and returns undefined
ResumedSwallow(state) ==
    IF state.kind = "fail" THEN [kind |-> "value", value |-> 0] ELSE state

\* a catch block that leaves the registered promise in place
CatchInFlightKept(m, key) == m

\* what the call that started the load returns or throws after `await p`
Resumed(state) == state

\* the catch block: inFlight.delete(key) (line 97)
CatchInFlight(m, key) == [m EXCEPT ![key] = 0]

\* a store that keeps the loaded value only while there is room for it
StoreLoadedIfRoom(st, key, entry, cap) ==
    IF Len(st) >= cap THEN st ELSE touch(StoreSet(st, key, entry), key, entry)

\* what the store holds once the load's value is set: store.set, touch, trim
StoreLoaded(st, key, entry, cap) ==
    trim(touch(StoreSet(st, key, entry), key, entry), cap)

\* the call that started load l resumes after `await p` (lines 84-98)
Resume(l) ==
    /\ l \in 1..Len(loads)
    /\ ~loads[l].bypass
    /\ loads[l].state \notin {Pending, DoneLoad.state}
    /\ LET key == loads[l].key
           entry == [key |-> key, value |-> loads[l].state.value,
                     expiresAt |-> now + Max(0, FloorHalf(loads[l].ttl))]
       IN IF loads[l].state.kind = "value"
          THEN /\ inFlight' = [inFlight EXCEPT ![key] = 0]
               /\ store' = StoreLoaded(store, key, entry, maxEntries)
          ELSE /\ inFlight' = CatchInFlight(inFlight, key)
               /\ store' = store
    /\ loads' = [loads EXCEPT ![l] = DoneLoad]
    /\ op' = LoadOp("resume", l, loads[l], Resumed(loads[l].state))
    /\ UNCHANGED <<maxEntries, now>>

\* configureCache that records the capacity and leaves the eviction to later calls
configureCacheLazily(h) ==
    /\ maxEntries' = Max(1, FloorHalf(h))
    /\ op' = EnvOp("configureCache")
    /\ UNCHANGED <<store, inFlight, now, loads>>

\* configureCache({maxEntries}): h is the option in halves; every h is finite
configureCache(h) ==
    /\ LET nxt == Max(1, FloorHalf(h))
       IN IF nxt # maxEntries
          THEN /\ maxEntries' = nxt
               /\ store' = trim(store, nxt)
          ELSE UNCHANGED <<maxEntries, store>>
    /\ op' = EnvOp("configureCache")
    /\ UNCHANGED <<inFlight, now, loads>>

\* time passes
Tick ==
    /\ now + 1 \in Clock
    /\ now' = now + 1
    /\ op' = EnvOp("tick")
    /\ UNCHANGED <<store, inFlight, maxEntries, loads>>

InitCache ==
    /\ store = <<>>
    /\ inFlight = [k \in LruKeys |-> 0]
    /\ maxEntries = 500
    /\ now = 0
    /\ loads = <<>>
    /\ op = NoOp

(***************************************************************************)
(* ado.server.ts: AdoClient.  A response body is held by its shape ("array": a bare *)
(* array, "value": an object whose value field is an array, "other": anything else), *)
(* the number of its elements, whether every element passes the schema, and its     *)
(* continuationToken field ("next": a non-empty string, "empty": "", "absent").     *)
(* The repository holds two versions of the client, which differ in how a body is   *)
(* normalized to an array: "inline" (app/services/ado.server.ts) and "asArray".     *)
(***************************************************************************)
Builds == {"inline", "asArray"}

JsonShapes == {"array", "value", "other"}

\* the elements of the body once normalized to an array; NaN stands for undefined
\* asArray(json): an array for every body
asArray(json) ==
    IF json.shape \in {"array", "value"} THEN Num(json.count) ELSE Num(0)

\* Array.isArray(json) ? json : json?.value && Array.isArray(json.value) ? json.value
\* : undefined
inlineArray(json) ==
    IF json.shape \in {"array", "value"} THEN Num(json.count) ELSE NaN

NormalizedArray(build, json) ==
    IF build = "asArray" THEN asArray(json) ELSE inlineArray(json)

\* the safety test passing one page early
ExceedsSafetyEarly(safety) == safety >= 200

\* if (safety > 200) throw
PagingSafetyLimit == 200
ExceedsSafety(safety) == safety > PagingSafetyLimit

\* typeof token === "string" && token.length > 0 ? token : undefined
HasContinuation(json) == json.shape # "array" /\ json.token = "next"

\* the pages the remote may answer with: one update each
Pages ==
    [shape : JsonShapes, count : {1}, valid : BOOLEAN, token : {"next", "empty", "absent"}]

\* Fields: build, the version of the client; phase; safety, the loop counter; requests,
\* the calls of adoFetchJson; all, the number of updates collected; served, the number
\* of updates in the well-formed pages received; more, whether the last page carried a
\* continuation token; error, what the loader threw.
IdlePager(build) ==
    [build |-> build, phase |-> "idle", safety |-> 0, requests |-> 0, all |-> 0,
     served |-> 0, more |-> FALSE, error |-> "none"]

\* the loader starts: first request, without a continuation token
PagedStart ==
    /\ pager.phase = "idle"
    /\ pager' = [pager EXCEPT !.phase = "fetching", !.requests = 1]

FailedPager(pg, error) == [pg EXCEPT !.phase = "failed", !.error = error]

\* await adoFetchJson(url) resolves with a page: the rest of the loop body
PageArrives(json) ==
    /\ pager.phase = "fetching"
    /\ LET pageArr == NormalizedArray(pager.build, json)
           safety == pager.safety + 1
           got == [pager EXCEPT !.safety = safety,
                                !.all = pager.all + pageArr[1],
                                !.served = pager.served +
                                           (IF json.shape = "other" THEN 0 ELSE json.count),
                                !.more = HasContinuation(json)]
       IN pager' =
             IF IsNaN(pageArr) THEN FailedPager(pager, "shape")
             ELSE IF pageArr[1] > 0 /\ ~json.valid THEN FailedPager(pager, "validation")
             ELSE IF ExceedsSafety(safety) THEN FailedPager(got, "safety")
             ELSE IF HasContinuation(json)
             THEN [got EXCEPT !.requests = pager.requests + 1]
             ELSE [got EXCEPT !.phase = "returned"]

\* await adoFetchJson(url) rejects
PageFetchFails ==
    /\ pager.phase = "fetching"
    /\ pager' = FailedPager(pager, "fetch")

(***************************************************************************)
(* getWorkItemsBatch.  A work item is held by its id; a response body by its *)
(* shape, its elements and whether every element passes the schema.        *)
(***************************************************************************)
\* ids.slice(i, i + 200)
BatchChunkSize == 200

Min(a, b) == IF a < b THEN a ELSE b

\* the number of chunks of ids
ChunkCount(ids) == (Len(ids) + BatchChunkSize - 1) \div BatchChunkSize

\* chunks[k]
Chunk(ids, k) ==
    SubSeq(ids, (k - 1) * BatchChunkSize + 1, Min(Len(ids), k * BatchChunkSize))

\* indexById.get(id): ids.forEach((id, i) => indexById.set(id, i)) keeps the last
\* position of an id; 0 if the id is not in ids
LastIndexOf(ids, id) ==
    LET at == {i \in 1..Len(ids) : ids[i] = id}
    IN IF at = {} THEN 0 ELSE CHOOSE i \in at : \A j \in at : j <= i

\* a filter that keeps every returned item
HasIndexAlways(ids, id) == TRUE

\* indexById.has(w.id)
HasIndex(ids, id) == LastIndexOf(ids, id) # 0

\* F applied to the value of v, v being evaluated once
With(v, F(_)) == CHOOSE r \in {F(x) : x \in {v}} : TRUE

\* the place of each item after a stable sort by key: after the items of smaller key
\* and the earlier items of equal key
StablePlaces(key) ==
    [k \in DOMAIN key |->
        Cardinality({m \in DOMAIN key : key[m] < key[k] \/ (key[m] = key[k] /\ m <= k)})]

\* .sort((a, b) => indexById.get(a.id) - indexById.get(b.id)): the sort is stable
SortByIndex(items, ids) ==
    With([k \in 1..Len(items) |-> LastIndexOf(ids, items[k])], LAMBDA key :
        With(StablePlaces(key), LAMBDA place :
            [q \in 1..Len(items) |-> items[CHOOSE k \in 1..Len(items) : place[k] = q]]))

RECURSIVE Flat(_, _)
\* results.flat(), results[k] being the items of chunk k
Flat(results, n) ==
    IF n = 0 THEN <<>> ELSE Flat(results, n - 1) \o results[n].items

\* all.filter(...).sort(...)
Ordered(all, ids) ==
    With(SelectSeq(all, LAMBDA w : HasIndex(ids, w)), LAMBDA kept : SortByIndex(kept, ids))

\* an id the caller did not ask for
ForeignId == 999

Reversed(seq) == [i \in 1..Len(seq) |-> seq[Len(seq) + 1 - i]]

\* the bodies the remote may answer a chunk with: the chunk's items in the order
\* asked or reversed, with or without an item that was not asked for
BatchResponses(chunk) ==
    [shape : {"value", "other"},
     valid : BOOLEAN,
     items : { extra \o body : extra \in {<<>>, <<ForeignId>>},
                               body \in {chunk, Reversed(chunk)} }]

\* the ids getWorkItemsBatch is called with
BatchInputs ==
    {<<>>, <<2>>, <<3, 1>>, <<1, 3>>, <<2, 2>>, <<3, 1, 2>>, <<2, 3, 2>>, <<1, 2, 3>>,
     <<3, 3, 1>>, <<2, 1, 3, 1>>,
     [i \in 1..201 |-> 202 - i]}

\* Fields: build; phase; ids; results[k], the items the loader of chunk k returned
\* and whether it has; requests, the loaders invoked; result, what the call returned.
IdleBatch(build) ==
    [build |-> build, phase |-> "idle", ids |-> <<>>, results |-> <<>>, requests |-> 0,
     result |-> <<>>]

\* what the call returns once every chunk has its items
BatchSettled(b) ==
    IF \A k \in 1..Len(b.results) : b.results[k].done
    THEN [b EXCEPT !.phase = "returned",
                   !.result = Ordered(Flat(b.results, Len(b.results)), b.ids)]
    ELSE b

\* getWorkItemsBatch(ids): up to await Promise.all(...)
BatchStart(ids) ==
    /\ batch.phase = "idle"
    /\ batch' = IF Len(ids) = 0
                THEN [batch EXCEPT !.phase = "returned"]
                ELSE [batch EXCEPT !.phase = "loading", !.ids = ids,
                                   !.requests = ChunkCount(ids),
                                   !.results = [k \in 1..ChunkCount(ids) |->
                                                  [done |-> FALSE, items |-> <<>>]]]

\* the request of chunk k is answered: the rest of its loader, then Promise.all
ChunkCompletes(k, json) ==
    /\ batch.phase = "loading"
    /\ k \in 1..Len(batch.results)
    /\ ~batch.results[k].done
    /\ LET arr == NormalizedArray(batch.build, [shape |-> json.shape, count |-> Len(json.items)])
       IN batch' =
             IF IsNaN(arr) \/ (arr[1] > 0 /\ ~json.valid)
             THEN [batch EXCEPT !.phase = "failed"]
             ELSE BatchSettled([batch EXCEPT !.results[k] =
                      [done |-> TRUE, items |-> IF arr[1] = 0 THEN <<>> ELSE json.items]])

\* the bodies a list endpoint may answer with: count elements, the first bad of which
\* fail the schema
ListBodies ==
    {json \in [shape : JsonShapes, count : {0, 2}, bad : {0, 1}] :
        /\ json.bad <= json.count
        /\ json.shape = "other" => json.count = 0}

\* a parse that drops the elements failing the schema
ParsedSkipping(json, n) == Num(n - json.bad)

\* arr.map((it) => ZPRReviewer.parse(it)) over the n elements of arr: the number of
\* elements of the typed list; NaN stands for the ZodError thrown at the first
\* element that fails the schema
Parsed(json, n) ==
    IF n > 0 /\ json.bad > 0 THEN NaN ELSE Num(n)

\* a list of n elements as a cached value (Undefined is 0)
ListValue(n) == n + 1

\* what the loader of a list operation throws on the body json ("none": it returns)
ListThrown(build, json) ==
    LET arr == NormalizedArray(build, json)
    IN IF IsNaN(arr) THEN "Invalid response shape"
       ELSE IF IsNaN(Parsed(json, arr[1])) THEN "ZodError"
       ELSE "none"

\* what the promise of the loader settles with on the body json
ListOutcome(build, json) ==
    LET arr == NormalizedArray(build, json)
    IN IF ListThrown(build, json) # "none" THEN Rejected
       ELSE Fulfilled(ListValue(Parsed(json, arr[1])[1]))

\* Fields: build, the version of the client; answers, for each loader invocation the
\* key it loads, the body adoFetchJson gave it and what it threw ("pending": not
\* answered yet).
NoAnswer ==
    [key |-> 0, json |-> [shape |-> "none", count |-> 0, bad |-> 0], thrown |-> "pending"]

IdleLister(build) ==
    [build |-> build, answers |-> [l \in 1..MaxLoads |-> NoAnswer]]

\* listPRReviewers(prId): getOrSet(cacheKey, this.ttlMs, loader), never with bypass
ListCall(key) ==
    /\ getOrSet(key, 3, FALSE)
    /\ UNCHANGED lister

\* adoFetchJson resolves to json in the loader of load l, which validates it
ListResponds(l, json) ==
    /\ LoaderSettles(l, ListOutcome(lister.build, json))
    /\ lister' = [lister EXCEPT !.answers[l] =
                     [key |-> loads[l].key, json |-> json,
                      thrown |-> ListThrown(lister.build, json)]]

\* adoFetchJson rejects in the loader of load l
ListFetchFails(l) ==
    /\ LoaderSettles(l, Rejected)
    /\ lister' = [lister EXCEPT !.answers[l] =
                     [NoAnswer EXCEPT !.key = loads[l].key, !.thrown = "AdoHttpError"]]

(***************************************************************************)
(* listWorkItemUpdatesPaged: the sort of the collected updates.  An update  *)
(* is its revisedDate: missing (undefined), the empty string, a string that *)
(* Date.parse does not understand, or a date with its time value.           *)
(***************************************************************************)
MaxUpdates == 3

RevisedDates ==
    {[kind |-> k, ms |-> 0] : k \in {"missing", "empty", "garbage"}}
        \cup {[kind |-> "date", ms |-> m] : m \in {-1, 1, 2}}

\* Date.parse(s): the time value, NaN for a string that is not a date
DateParse(d) ==
    IF d.kind = "date" THEN Num(d.ms) ELSE NaN

\* a.revisedDate ? Date.parse(a.revisedDate) : 0
SortKey(d) ==
    IF d.kind \in {"missing", "empty"} THEN Num(0) ELSE DateParse(d)

\* the comparator (a, b) => da - db
Comparator(a, b) ==
    IF IsNaN(SortKey(a)) \/ IsNaN(SortKey(b)) THEN NaN
    ELSE Num(SortKey(a)[1] - SortKey(b)[1])

\* SortCompare of Array.prototype.sort: ToNumber of the comparator's result, NaN
\* taken as +0; reduced to its sign
SortCompare(a, b) ==
    LET v == Comparator(a, b)
    IN IF IsNaN(v) THEN 0 ELSE IF v[1] < 0 THEN -1 ELSE IF v[1] > 0 THEN 1 ELSE 0

\* the comparator is a consistent comparator for the elements of seq (ECMAScript,
\* Array.prototype.sort): "equal" and "less" are transitive and agree with each other
ConsistentComparator(seq) ==
    LET S == {seq[i] : i \in 1..Len(seq)}
    IN \A a \in S, b \in S, c \in S :
          /\ (SortCompare(a, b) = 0 /\ SortCompare(b, c) = 0) => SortCompare(a, c) = 0
          /\ (SortCompare(a, b) < 0 /\ SortCompare(b, c) < 0) => SortCompare(a, c) < 0
          /\ (SortCompare(a, b) > 0 /\ SortCompare(b, c) > 0) => SortCompare(a, c) > 0
          /\ (SortCompare(a, b) = 0 /\ SortCompare(b, c) < 0) => SortCompare(a, c) < 0
          /\ (SortCompare(a, b) < 0 /\ SortCompare(b, c) = 0) => SortCompare(a, c) < 0

\* the orders of the elements of seq
PermutationsOf(seq) ==
    {[i \in 1..Len(seq) |-> seq[f[i]]] :
        f \in {g \in [1..Len(seq) -> 1..Len(seq)] :
                 \A i, j \in 1..Len(seq) : g[i] = g[j] => i = j}}

\* the stable sort of seq by SortCompare
StableSorted(seq) ==
    LET place(i) == Cardinality({j \in 1..Len(seq) :
                        \/ SortCompare(seq[j], seq[i]) < 0
                        \/ SortCompare(seq[j], seq[i]) = 0 /\ j <= i})
    IN [p \in 1..Len(seq) |-> seq[CHOOSE i \in 1..Len(seq) : place(i) = p]]

\* all.sort(comparator): the stable sorted order when the comparator is consistent,
\* an order the implementation chooses when it is not
SortOutcomes(seq) ==
    IF ConsistentComparator(seq) THEN {StableSorted(seq)} ELSE PermutationsOf(seq)

IdleSorter == [phase |-> "collecting", all |-> <<>>, result |-> <<>>]

\* all.push(ZWorkItemUpdate.parse(it)): the pages deliver the updates in any order
UpdateArrives(d) ==
    /\ sorter.phase = "collecting"
    /\ Len(sorter.all) < MaxUpdates
    /\ sorter' = [sorter EXCEPT !.all = Append(@, d)]

\* the last page has no continuation token: all.sort(...); return all
SortAndReturn ==
    /\ sorter.phase = "collecting"
    /\ \E sorted \in SortOutcomes(sorter.all) :
          sorter' = [sorter EXCEPT !.phase = "returned", !.result = sorted]

(***************************************************************************)
(* listPullRequests: one search per target ref, run concurrently, merged    *)
(* and deduplicated by id.  A pull request is its id.                       *)
(***************************************************************************)
DefaultTargetRef == "refs/heads/main"

\* params.targetRefs: absent, or a list of refs
TargetRefInputs ==
    {[given |-> FALSE, refs |-> <<>>]}
        \cup {[given |-> TRUE, refs |-> r] :
                 r \in {<<>>, <<"refs/heads/dev">>, <<"refs/heads/dev", DefaultTargetRef>>,
                        <<DefaultTargetRef, "refs/heads/dev", "refs/heads/rel">>}}

\* params.targetRefs && params.targetRefs.length ? params.targetRefs : ["refs/heads/main"]
Targets(input) ==
    IF input.given /\ Len(input.refs) # 0 THEN input.refs ELSE <<DefaultTargetRef>>

\* the bodies a search may be answered with: the pull requests it lists
PrResponses ==
    [shape : {"value", "other"}, valid : BOOLEAN,
     items : {<<>>, <<1>>, <<2>>, <<1, 2>>, <<2, 1>>, <<2, 2>>, <<3, 1>>}]

\* a membership test that never finds the id
SeenHasNever(seen, id) == FALSE

\* seen.has(pr.id)
SeenHas(seen, id) == id \in seen

RECURSIVE DedupeFrom(_, _, _, _)
\* for (const pr of merged) if (!seen.has(pr.id)) { seen.add(pr.id); deduped.push(pr) }
DedupeFrom(merged, i, seen, deduped) ==
    IF i > Len(merged) THEN deduped
    ELSE IF SeenHas(seen, merged[i])
         THEN DedupeFrom(merged, i + 1, seen, deduped)
         ELSE DedupeFrom(merged, i + 1, seen \cup {merged[i]}, Append(deduped, merged[i]))

Dedupe(merged) == DedupeFrom(merged, 1, {}, <<>>)

\* Fields: build; phase; input, params.targetRefs; targets; results[k], the pull
\* requests the search of target k returned and whether it has; completed, the
\* targets in the order their searches completed; result, what the loader returned.
IdlePrs ==
    [build |-> "inline", phase |-> "idle", input |-> [given |-> FALSE, refs |-> <<>>],
     targets |-> <<>>, results |-> <<>>, completed |-> <<>>, result |-> <<>>]

\* const batches = await Promise.all(queries); merged; deduped
PrsSettled(p) ==
    IF \A k \in 1..Len(p.results) : p.results[k].done
    THEN [p EXCEPT !.phase = "returned",
                   !.result = Dedupe(Flat(p.results, Len(p.results)))]
    ELSE p

\* listPullRequests(params) in either version of the client, up to await Promise.all
PrsStart(build, input) ==
    /\ prs.phase = "idle"
    /\ prs' = [prs EXCEPT !.build = build, !.phase = "searching", !.input = input,
                          !.targets = Targets(input),
                          !.results = [k \in 1..Len(Targets(input)) |->
                                         [done |-> FALSE, items |-> <<>>]]]

\* the search of target k is answered: the rest of its query, then Promise.all
SearchCompletes(k, json) ==
    /\ prs.phase = "searching"
    /\ k \in 1..Len(prs.results)
    /\ ~prs.results[k].done
    /\ LET arr == NormalizedArray(prs.build, [shape |-> json.shape, count |-> Len(json.items)])
       IN prs' =
             IF IsNaN(arr) \/ (arr[1] > 0 /\ ~json.valid)
             THEN [prs EXCEPT !.phase = "failed"]
             ELSE PrsSettled([prs EXCEPT !.results[k] =
                                 [done |-> TRUE,
                                  items |-> IF arr[1] = 0 THEN <<>> ELSE json.items],
                              !.completed = Append(@, k)])
(***************************************************************************)
(* listGraphUsers: the route loader calls it with {bypass}; the method      *)
(* declares no parameter and calls getOrSet without options.                *)
(***************************************************************************)
GraphUsersKey == 1

\* Fields: calls, whether listGraphUsers has been called; asked, the bypass its last
\* caller passed.
IdleGraph == [calls |-> FALSE, asked |-> FALSE]

\* the options getOrSet receives from listGraphUsers: none, whatever the caller passed
ForwardedBypass(asked) == FALSE

\* listGraphUsers({bypass}): getOrSet("graphUsers", this.ttlMs, loader)
listGraphUsers(asked) ==
    /\ getOrSet(GraphUsersKey, 3, ForwardedBypass(asked))
    /\ graph' = [calls |-> TRUE, asked |-> asked]
(***************************************************************************)
(* buildSegments: the timeline of a work item from its updates.  An update  *)
(* is its revisedDate and the newValue of System.State and of               *)
(* System.AssignedTo, each <<>> when absent (undefined or null) and <<v>>   *)
(* when the string v.  Times are time values (getTime()).                   *)
(***************************************************************************)
MaxTimelineUpdates == 3

UNKNOWN_STATE == "unknown"

\* opts.mapping
Mapping == [toDo |-> "New", inProgress |-> "Active", done |-> "Closed"]

\* String.prototype.trim on the strings of the model
Trim(str) ==
    IF str = " closed " THEN "closed" ELSE IF str = " " THEN "" ELSE str

\* the strings of the model with case differences removed
LowerCase(str) ==
    IF str = "Closed" THEN "closed"
    ELSE IF str = "New" THEN "new"
    ELSE IF str = "Active" THEN "active"
    ELSE str

\* toDate(value): the time value, NaN standing for undefined (not a string, or not a
\* finite date)
toDate(d) ==
    IF d.kind = "date" THEN Num(d.ms) ELSE NaN

\* extractState(value)
extractState(value) ==
    IF value = <<>> THEN <<>> ELSE <<Trim(value[1])>>

\* extractAssignee(value) for a string: value.trim() || undefined
extractAssignee(value) ==
    IF value = <<>> THEN <<>>
    ELSE IF Trim(value[1]) = "" THEN <<>> ELSE <<Trim(value[1])>>

\* a.localeCompare(b, undefined, {sensitivity: "accent"}) === 0
eq(a, b) == LowerCase(a) = LowerCase(b)

\* normalizeState(raw, mapping)
normalizeState(raw, mapping) ==
    IF raw = <<>> \/ raw[1] = "" THEN UNKNOWN_STATE
    ELSE LET r == Trim(raw[1])
         IN IF eq(r, mapping.toDo) THEN "toDo"
            ELSE IF eq(r, mapping.inProgress) THEN "inProgress"
            ELSE IF eq(r, mapping.done) THEN "done"
            ELSE r

\* the rows pushed by the loop of normalizeAndSort, before the sort
NormalizedRows(updates) ==
    LET parseable == SelectSeq(updates, LAMBDA u : ~IsNaN(toDate(u.revisedDate)))
    IN [i \in 1..Len(parseable) |->
          [date |-> toDate(parseable[i].revisedDate)[1],
           stateRaw |-> extractState(parseable[i].state),
           assignee |-> extractAssignee(parseable[i].assignedTo)]]

\* rows left in input order
SortByDateSkipped(rows) == rows

\* out.sort((a, b) => a.date.getTime() - b.date.getTime()): stable
SortByDate(rows) ==
    LET place(i) == Cardinality({j \in 1..Len(rows) :
                        \/ rows[j].date < rows[i].date
                        \/ rows[j].date = rows[i].date /\ j <= i})
    IN [p \in 1..Len(rows) |-> rows[CHOOSE i \in 1..Len(rows) : place(i) = p]]

normalizeAndSort(updates) == SortByDate(NormalizedRows(updates))

\* a merge that keeps the first values seen
MergedKeepFirst(current, r) ==
    [current EXCEPT !.stateRaw = IF current.stateRaw # <<>> THEN @ ELSE r.stateRaw,
                    !.assignee = IF current.assignee # <<>> THEN @ ELSE r.assignee]

\* lines 85-86: the fields r defines override those of current
Merged(current, r) ==
    [current EXCEPT !.stateRaw = IF r.stateRaw # <<>> THEN r.stateRaw ELSE @,
                    !.assignee = IF r.assignee # <<>> THEN r.assignee ELSE @]

RECURSIVE GroupFrom(_, _, _, _)
\* the loop of groupEvents from row i on
GroupFrom(rows, i, current, events) ==
    IF i > Len(rows) THEN Append(events, current)
    ELSE IF rows[i].date = current.date
         THEN GroupFrom(rows, i + 1, Merged(current, rows[i]), events)
         ELSE GroupFrom(rows, i + 1, rows[i], Append(events, current))

groupEvents(rows) ==
    IF Len(rows) = 0 THEN <<>> ELSE GroupFrom(rows, 2, rows[1], <<>>)

\* a split at every event
PairChangedAlways(nextState, nextAssignee, segState, segAssignee) == TRUE

\* nextState !== segState || nextAssignee !== segAssignee
PairChanged(nextState, nextAssignee, segState, segAssignee) ==
    nextState # segState \/ nextAssignee # segAssignee

\* an event that resets the fields it does not specify
AppliedReset(known, specified) == specified

\* if (e.stateRaw !== undefined) stateRaw = e.stateRaw (and the same for assignee)
Applied(known, specified) ==
    IF specified # <<>> THEN specified ELSE known

Segment(state, assignee, tStart, tEnd) ==
    [state |-> state, assignee |-> assignee, tStart |-> tStart, tEnd |-> tEnd]

RECURSIVE BaseFrom(_, _, _, _, _, _)
\* the loop of buildBaseSegments from event i on, and the final push; seg is the open
\* segment (segState, segAssignee, segStart)
BaseFrom(events, i, stateRaw, assignee, seg, segments) ==
    IF i > Len(events)
    THEN Append(segments, Segment(seg.state, seg.assignee, seg.tStart, events[Len(events)].date))
    ELSE LET e == events[i]
             raw == Applied(stateRaw, e.stateRaw)
             who == Applied(assignee, e.assignee)
             nextState == normalizeState(raw, Mapping)
         IN IF PairChanged(nextState, who, seg.state, seg.assignee)
            THEN BaseFrom(events, i + 1, raw, who,
                          [state |-> nextState, assignee |-> who, tStart |-> e.date],
                          Append(segments, Segment(seg.state, seg.assignee, seg.tStart, e.date)))
            ELSE BaseFrom(events, i + 1, raw, who, seg, segments)

\* buildBaseSegments(events, mapping), events not empty
buildBaseSegments(events) ==
    LET raw == Applied(<<>>, events[1].stateRaw)
        who == Applied(<<>>, events[1].assignee)
    IN BaseFrom(events, 2, raw, who,
                [state |-> normalizeState(raw, Mapping), assignee |-> who,
                 tStart |-> events[1].date],
                <<>>)

maxDate(a, b) == IF a >= b THEN a ELSE b
minDate(a, b) == IF a <= b THEN a ELSE b

\* a clip that keeps the segments of no duration
ClippedKeepsEmpty(start, end) == start <= end

\* if (start < end)
ClippedKept(start, end) == start < end

\* clipToWindow(segments, win)
clipToWindow(segments, win) ==
    IF win.to <= win.from THEN <<>>
    ELSE LET kept == SelectSeq(segments,
                         LAMBDA sg : ClippedKept(maxDate(sg.tStart, win.from),
                                                 minDate(sg.tEnd, win.to)))
         IN [i \in 1..Len(kept) |->
               Segment(kept[i].state, kept[i].assignee,
                       maxDate(kept[i].tStart, win.from), minDate(kept[i].tEnd, win.to))]

\* opts.window: absent, or {from, to}
NoWindow == [given |-> FALSE, from |-> 0, to |-> 0]
Windows ==
    {NoWindow}
        \cup {[given |-> TRUE, from |-> w[1], to |-> w[2]] :
                 w \in {<<2, 3>>, <<0, 2>>, <<2, 2>>, <<3, 1>>}}

\* the updates buildSegments may be given: a date that can be parsed with any of the
\* field deltas, or a date that cannot (its fields are never read)
TimelineDates ==
    {[kind |-> "date", ms |-> m] : m \in {1, 2, 3}}

FieldDeltas ==
    {<<<<>>, <<>>>>, <<<<"New">>, <<>>>>, <<<<" closed ">>, <<>>>>, <<<<"Closed">>, <<"X">>>>,
     <<<<>>, <<"Y">>>>}

TimelineUpdates ==
    {[revisedDate |-> d, state |-> f[1], assignedTo |-> f[2]] :
        d \in TimelineDates, f \in FieldDeltas}
        \cup {[revisedDate |-> [kind |-> "garbage", ms |-> 0], state |-> <<"New">>,
               assignedTo |-> <<>>]}

\* Fields: phase; updates and window, the arguments; events, base: the values of the
\* locals of buildSegments; result, what it returned.
IdleTimeline ==
    [phase |-> "idle", updates |-> <<>>, window |-> NoWindow, events |-> <<>>,
     base |-> <<>>, result |-> <<>>]

\* the caller puts one more update in the list it will pass
TimelineUpdateGiven(u) ==
    /\ timeline.phase = "idle"
    /\ Len(timeline.updates) < MaxTimelineUpdates
    /\ timeline' = [timeline EXCEPT !.updates = Append(@, u)]

\* buildSegments(updates, {window, mapping})
buildSegments(window) ==
    /\ timeline.phase = "idle"
    /\ \E events \in {groupEvents(normalizeAndSort(timeline.updates))} :
          IF Len(events) = 0
          THEN timeline' = [timeline EXCEPT !.phase = "returned", !.window = window]
          ELSE \E base \in {buildBaseSegments(events)} :
                  timeline' = [timeline EXCEPT
                                  !.phase = "returned", !.window = window,
                                  !.events = events, !.base = base,
                                  !.result = IF window.given THEN clipToWindow(base, window)
                                             ELSE base]
(***************************************************************************)
(* computeWorkItemMetrics: the metrics of a work item from its segments.    *)
(* undefined is NaN (<<>>), a number n is <<n>>.                            *)
(***************************************************************************)
MaxSegments == 3

\* the states a segment may carry: the mapped trio and a raw state outside it
SegmentStates == {"toDo", "inProgress", "done", "Review"}

\* the durations of the segments given: none, or ten time units
SegmentDurations == {0, 10}

\* createdAt
CreationTimes == {0, 15}

\* throughput as the number of completed items
ThroughputIfCompleted(hasTransition, completed) == IF completed THEN 1 ELSE 0

\* const throughput = hasInWindowFirstDoneTransition ? 1 : 0
Throughput(hasTransition, completed) == IF hasTransition THEN 1 ELSE 0

\* the locals of computeWorkItemMetrics before the loop
MetricsLocals ==
    [toDoMs |-> 0, inProgressMs |-> 0, doneMs |-> 0, firstDoneAt |-> NaN,
     firstInProgressAt |-> NaN, hasInWindowFirstDoneTransition |-> FALSE]

\* one pass of the loop of lines 60-84 over segment i
MetricsStep(segments, i, acc) ==
    LET sg == segments[i]
        dur == Max(0, sg.tEnd - sg.tStart)
    IN IF sg.state = "toDo" THEN [acc EXCEPT !.toDoMs = @ + dur]
       ELSE IF sg.state = "inProgress"
       THEN [acc EXCEPT !.inProgressMs = @ + dur,
                        !.firstInProgressAt = IF IsNaN(@) THEN Num(sg.tStart) ELSE @]
       ELSE IF sg.state = "done"
       THEN [acc EXCEPT !.doneMs = @ + dur,
                        !.firstDoneAt = IF IsNaN(@) THEN Num(sg.tStart) ELSE @,
                        !.hasInWindowFirstDoneTransition =
                            IF i > 1 /\ segments[i - 1].state # "done" THEN TRUE ELSE @]
       ELSE acc

RECURSIVE MetricsLoop(_, _, _)
MetricsLoop(segments, i, acc) ==
    IF i > Len(segments) THEN acc
    ELSE MetricsLoop(segments, i + 1, MetricsStep(segments, i, acc))

\* lead time measured from the creation, whatever the order of the two times
LeadTimeUnclamped(firstDoneAt, createdAt) ==
    IF IsNaN(firstDoneAt) THEN NaN ELSE Num(firstDoneAt[1] - createdAt)

\* lines 89-91: firstDoneAt ? Math.max(0, firstDoneAt - createdAt) : undefined
LeadTime(firstDoneAt, createdAt) ==
    IF IsNaN(firstDoneAt) THEN NaN ELSE Num(Max(0, firstDoneAt[1] - createdAt))

\* cycle time without the test firstDoneAt >= firstInProgressAt
CycleTimeUnordered(firstDoneAt, firstInProgressAt) ==
    IF ~IsNaN(firstDoneAt) /\ ~IsNaN(firstInProgressAt)
    THEN Num(Max(0, firstDoneAt[1] - firstInProgressAt[1]))
    ELSE NaN

\* lines 93-95
CycleTime(firstDoneAt, firstInProgressAt) ==
    IF /\ ~IsNaN(firstDoneAt)
       /\ ~IsNaN(firstInProgressAt)
       /\ firstDoneAt[1] >= firstInProgressAt[1]
    THEN Num(Max(0, firstDoneAt[1] - firstInProgressAt[1]))
    ELSE NaN

\* rework as the number of segments that follow a done segment
ReworkCountAfterDone(segments) ==
    Cardinality({i \in 2..Len(segments) : segments[i - 1].state = "done"})

\* lines 98-103: the done -> non-done transitions
ReworkCount(segments) ==
    Cardinality({i \in 2..Len(segments) :
                    segments[i - 1].state = "done" /\ segments[i].state # "done"})

\* computeWorkItemMetrics(segments, createdAt, _mapping)
computeWorkItemMetrics(segments, createdAt) ==
    IF Len(segments) = 0
    THEN [completed |-> FALSE, firstDoneAt |-> NaN, throughput |-> 0, leadTimeMs |-> NaN,
          cycleTimeMs |-> NaN, timeInStateMs |-> [toDo |-> 0, inProgress |-> 0, done |-> 0],
          reworkCount |-> 0]
    ELSE LET acc == MetricsLoop(segments, 1, MetricsLocals)
             completed == segments[Len(segments)].state = "done"
         IN [completed |-> completed,
             firstDoneAt |-> acc.firstDoneAt,
             throughput |-> Throughput(acc.hasInWindowFirstDoneTransition, completed),
             leadTimeMs |-> LeadTime(acc.firstDoneAt, createdAt),
             cycleTimeMs |-> CycleTime(acc.firstDoneAt, acc.firstInProgressAt),
             timeInStateMs |-> [toDo |-> acc.toDoMs, inProgress |-> acc.inProgressMs,
                                done |-> acc.doneMs],
             reworkCount |-> ReworkCount(segments)]

\* Fields: phase; segments and createdAt, the arguments; result, what was returned.
IdleMetrics ==
    [phase |-> "idle", segments |-> <<>>, createdAt |-> 0,
     result |-> computeWorkItemMetrics(<<>>, 0)]

\* the caller puts one more segment in the list it will pass: it starts where the
\* last one ended
MetricsSegmentGiven(state, dur) ==
    /\ metrics.phase = "idle"
    /\ Len(metrics.segments) < MaxSegments
    /\ LET start == IF Len(metrics.segments) = 0 THEN 0
                    ELSE metrics.segments[Len(metrics.segments)].tEnd
       IN metrics' = [metrics EXCEPT
                         !.segments = Append(@, Segment(state, <<>>, start, start + dur))]

\* the call computeWorkItemMetrics(segments, createdAt, mapping)
MetricsComputed(createdAt) ==
    /\ metrics.phase = "idle"
    /\ metrics' = [metrics EXCEPT
                      !.phase = "returned", !.createdAt = createdAt,
                      !.result = computeWorkItemMetrics(metrics.segments, createdAt)]

\* the windows of the caller that computes the metrics of a period: none, or one that
\* holds every date an update can carry
PeriodWindows == {NoWindow, [given |-> TRUE, from |-> 0, to |-> 4]}

\* the caller passes the segments buildSegments returned to computeWorkItemMetrics
MetricsOfTimeline(createdAt) ==
    /\ timeline.phase = "returned"
    /\ metrics.phase = "idle"
    /\ metrics' = [phase |-> "returned", segments |-> timeline.result,
                   createdAt |-> createdAt,
                   result |-> computeWorkItemMetrics(timeline.result, createdAt)]

(***************************************************************************)
(* computeAuthoredMetrics: the metrics of the pull requests a person        *)
(* authored. The threads of a pull request are its list of comments; an     *)
(* identity is its key ("" when identityKey finds none); null and undefined *)
(* are NaN.                                                                 *)
(***************************************************************************)
MaxAuthoredInputs == 4

\* the pull requests given, all created at 2 by "a": one completed at 5 after two
\* iterations, one still a draft
AuthoredPrs ==
    {[isDraft |-> FALSE, creationDate |-> Num(2), closedDate |-> Num(5),
      status |-> "completed", createdBy |-> "a", iterations |-> Num(2)],
     [isDraft |-> TRUE, creationDate |-> Num(2), closedDate |-> NaN,
      status |-> "active", createdBy |-> "a", iterations |-> NaN]}

\* the comments given: by the author, by two reviewers, before and after the creation;
\* the author marking the pull request ready for review; one without an identity
AuthoredComments ==
    {[author |-> w, publishedDate |-> t, ready |-> FALSE] :
        w \in {"a", "r", "s"}, t \in {1, 3}}
    \cup {[author |-> "a", publishedDate |-> 3, ready |-> TRUE],
          [author |-> "", publishedDate |-> 3, ready |-> FALSE]}

\* the reviewers given, with their votes
AuthoredReviewers ==
    {[key |-> "r", vote |-> 10], [key |-> "s", vote |-> 10], [key |-> "s", vote |-> 0]}

\* the policy evaluations given
AuthoredPolicies ==
    {[displayName |-> "Minimum number of reviewers", status |-> "approved",
      completedDate |-> Num(4)],
     [displayName |-> "Minimum number of reviewers", status |-> "rejected",
      completedDate |-> Num(4)],
     [displayName |-> "Build", status |-> "approved", completedDate |-> Num(4)]}

EarliestOf(times) == CHOOSE t \in times : \A u \in times : t <= u
LatestOf(times) == CHOOSE t \in times : \A u \in times : u <= t

\* Math.round(sum / n) of two naturals, n > 0
RoundedAverage(sum, n) == (2 * sum + n) \div (2 * n)

\* ctx.businessTime as the caller supplies it: here the time elapsed
businessTime(a, b) == b - a

\* safeBusinessTime(fn, a, b)
safeBusinessTime(a, b) ==
    IF businessTime(a, b) >= 0 THEN businessTime(a, b) ELSE 0

\* name.includes("reviewer") || ... || name.includes("review")
isReviewerPolicy(p) == p.displayName \in {"Minimum number of reviewers", "Required reviewers"}

\* name.includes("build")
isBuildPolicy(p) == p.displayName = "Build"

\* detectReadyAt(threads): the earliest comment that marks the pull request ready
detectReadyAt(comments) ==
    LET times == {comments[i].publishedDate : i \in {j \in DOMAIN comments : comments[j].ready}}
    IN IF times = {} THEN NaN ELSE Num(EarliestOf(times))

\* lines 298-299
TtfrStart(pr) ==
    LET created == pr.creationDate[1]
        detected == detectReadyAt(pr.comments)
        readyAt == IF ~IsNaN(detected) THEN detected
                   ELSE IF pr.isDraft THEN NaN ELSE pr.creationDate
    IN IF ~IsNaN(readyAt) /\ readyAt[1] > created THEN readyAt[1] ELSE created

\* a comment counts as one of the author's whoever wrote it
IsSelfCommentNever(whoKey, authorKey) == FALSE

\* line 437: authorKey && whoKey === authorKey
IsSelfComment(whoKey, authorKey) == authorKey # "" /\ whoKey = authorKey

\* findFirstNonAuthorCommentAtOrAfter(threads, authorKey, notBefore)
findFirstNonAuthorCommentAtOrAfter(comments, authorKey, notBefore) ==
    LET times == {comments[i].publishedDate :
                    i \in {j \in DOMAIN comments :
                             /\ comments[j].publishedDate >= notBefore
                             /\ comments[j].author # ""
                             /\ ~IsSelfComment(comments[j].author, authorKey)}}
    IN IF times = {} THEN NaN ELSE Num(EarliestOf(times))

\* findEarliestCommentByAuthorKey(threads, key)
findEarliestCommentByAuthorKey(comments, key) ==
    LET times == {comments[i].publishedDate :
                    i \in {j \in DOMAIN comments :
                             comments[j].author # "" /\ comments[j].author = key}}
    IN IF times = {} THEN NaN ELSE Num(EarliestOf(times))

\* inferApprovalsMetAtFromVotesAndComments(reviewers, threads)
inferApprovalsMetAtFromVotesAndComments(reviewers, comments) ==
    LET approving == {i \in DOMAIN reviewers : reviewers[i].vote >= 5}
        earliest == {findEarliestCommentByAuthorKey(comments, reviewers[i].key) :
                        i \in approving}
    IN IF Len(reviewers) = 0 THEN NaN
       ELSE IF approving = {} THEN NaN
       ELSE IF Cardinality(approving) < Len(reviewers) THEN NaN
       ELSE IF \E i \in approving : reviewers[i].key = "" THEN NaN
       ELSE IF NaN \in earliest THEN NaN
       ELSE Num(LatestOf({d[1] : d \in earliest}))

\* lines 311-315: the dates of the approved reviewer policy evaluations
ReviewerApprovals(policies) ==
    {policies[i].completedDate[1] :
        i \in {j \in DOMAIN policies :
                 /\ isReviewerPolicy(policies[j])
                 /\ eq(policies[j].status, "approved")
                 /\ ~IsNaN(policies[j].completedDate)}}

\* lines 309-330: the time to approval the pull request contributes, if any, and
\* the branch that gave it
ApprovalSample(pr) ==
    LET created == pr.creationDate[1]
        approvals == ReviewerApprovals(pr.policies)
        approvalsMetAt == inferApprovalsMetAtFromVotesAndComments(pr.reviewers, pr.comments)
    IN IF approvals # {}
       THEN IF EarliestOf(approvals) > created
            THEN [via |-> "policy", ms |-> Num(safeBusinessTime(created, EarliestOf(approvals)))]
            ELSE [via |-> "policy", ms |-> NaN]
       ELSE IF ~IsNaN(approvalsMetAt) /\ approvalsMetAt[1] > created
            THEN [via |-> "votes", ms |-> Num(safeBusinessTime(created, approvalsMetAt[1]))]
            ELSE [via |-> "votes", ms |-> NaN]

\* lines 297-307: the time to first response the pull request contributes, if any
TtfrSample(pr) ==
    LET ttfrStart == TtfrStart(pr)
        firstReviewAt == findFirstNonAuthorCommentAtOrAfter(pr.comments, pr.createdBy, ttfrStart)
    IN IF ~IsNaN(firstReviewAt) /\ firstReviewAt[1] > ttfrStart
       THEN Num(safeBusinessTime(ttfrStart, firstReviewAt[1]))
       ELSE NaN

\* lines 332-337
MergeSample(pr) ==
    IF /\ ~IsNaN(pr.closedDate)
       /\ eq(pr.status, "completed")
       /\ pr.closedDate[1] > pr.creationDate[1]
    THEN Num(safeBusinessTime(pr.creationDate[1], pr.closedDate[1]))
    ELSE NaN

\* the locals of computeAuthoredMetrics before the loop over the included
AuthoredLocals ==
    [ttfrSum |-> 0, ttfrN |-> 0, approveSum |-> 0, approveN |-> 0, mergeSum |-> 0,
     mergeN |-> 0, iterSum |-> 0, iterN |-> 0, ciN |-> 0, ciPass |-> 0]

\* one pass of the loop of lines 292-354
AuthoredStep(pr, acc) ==
    LET ttfr == TtfrSample(pr)
        approve == ApprovalSample(pr).ms
        merge == MergeSample(pr)
        builds == {i \in DOMAIN pr.policies :
                      isBuildPolicy(pr.policies[i]) /\ ~IsNaN(pr.policies[i].completedDate)}
    IN [ttfrSum |-> acc.ttfrSum + (IF IsNaN(ttfr) THEN 0 ELSE ttfr[1]),
        ttfrN |-> acc.ttfrN + (IF IsNaN(ttfr) THEN 0 ELSE 1),
        approveSum |-> acc.approveSum + (IF IsNaN(approve) THEN 0 ELSE approve[1]),
        approveN |-> acc.approveN + (IF IsNaN(approve) THEN 0 ELSE 1),
        mergeSum |-> acc.mergeSum + (IF IsNaN(merge) THEN 0 ELSE merge[1]),
        mergeN |-> acc.mergeN + (IF IsNaN(merge) THEN 0 ELSE 1),
        iterSum |-> acc.iterSum + (IF IsNaN(pr.iterations) THEN 0 ELSE pr.iterations[1]),
        iterN |-> acc.iterN + (IF IsNaN(pr.iterations) THEN 0 ELSE 1),
        ciN |-> acc.ciN + Cardinality(builds),
        ciPass |-> acc.ciPass
                     + Cardinality({i \in builds : eq(pr.policies[i].status, "approved")})]

RECURSIVE AuthoredLoop(_, _, _)
AuthoredLoop(included, i, acc) ==
    IF i > Len(included) THEN acc
    ELSE AuthoredLoop(included, i + 1, AuthoredStep(included[i], acc))

\* lines 255-263, with no window and the default isDraftExcluded
Included(pulls) ==
    SelectSeq(pulls, LAMBDA pr : ~IsNaN(pr.creationDate) /\ ~pr.isDraft)

\* a quotient, kept as its two terms; null when there is nothing to divide by
Ratio(n, d) == IF d = 0 THEN NaN ELSE <<n, d>>

\* computeAuthoredMetrics(prs, ctx); locals keeps the counters of the loop
computeAuthoredMetrics(pulls) ==
    LET included == Included(pulls)
        acc == AuthoredLoop(included, 1, AuthoredLocals)
    IN IF Len(included) = 0
       THEN [count |-> 0, ttfrAvgMs |-> NaN, timeToApproveAvgMs |-> NaN,
             timeToMergeAvgMs |-> NaN, iterationsAvg |-> NaN, ciPassRate |-> NaN,
             locals |-> AuthoredLocals]
       ELSE [count |-> Len(included),
             ttfrAvgMs |-> IF acc.ttfrN = 0 THEN NaN
                           ELSE Num(RoundedAverage(acc.ttfrSum, acc.ttfrN)),
             timeToApproveAvgMs |-> IF acc.approveN = 0 THEN NaN
                                    ELSE Num(RoundedAverage(acc.approveSum, acc.approveN)),
             timeToMergeAvgMs |-> IF acc.mergeN = 0 THEN NaN
                                  ELSE Num(RoundedAverage(acc.mergeSum, acc.mergeN)),
             iterationsAvg |-> Ratio(acc.iterSum, acc.iterN),
             ciPassRate |-> Ratio(acc.ciPass, acc.ciN),
             locals |-> acc]

\* Fields: phase; prs, the pull requests passed, each with the comments, reviewers and
\* policy evaluations the context holds for it; given, how many inputs were given;
\* result, what was returned.
IdleAuthored ==
    [phase |-> "idle", prs |-> <<>>, given |-> 0, result |-> computeAuthoredMetrics(<<>>)]

\* the caller adds a pull request to the list it will pass
AuthoredPrGiven(pr) ==
    /\ authored.phase = "idle"
    /\ authored.given < MaxAuthoredInputs
    /\ authored' = [authored EXCEPT
                       !.given = @ + 1,
                       !.prs = Append(@, [isDraft |-> pr.isDraft,
                                          creationDate |-> pr.creationDate,
                                          closedDate |-> pr.closedDate,
                                          status |-> pr.status,
                                          createdBy |-> pr.createdBy,
                                          iterations |-> pr.iterations,
                                          comments |-> <<>>, reviewers |-> <<>>,
                                          policies |-> <<>>])]

\* ctx.threadsByPr holds one more comment for the last pull request
AuthoredCommentGiven(c) ==
    /\ authored.phase = "idle"
    /\ authored.given < MaxAuthoredInputs
    /\ Len(authored.prs) > 0
    /\ authored' = [authored EXCEPT
                       !.given = @ + 1,
                       !.prs[Len(authored.prs)].comments = Append(@, c)]

\* ctx.reviewersByPr holds one more reviewer for the last pull request
AuthoredReviewerGiven(r) ==
    /\ authored.phase = "idle"
    /\ authored.given < MaxAuthoredInputs
    /\ Len(authored.prs) > 0
    /\ authored' = [authored EXCEPT
                       !.given = @ + 1,
                       !.prs[Len(authored.prs)].reviewers = Append(@, r)]

\* ctx.policiesByPr holds one more evaluation for the last pull request
AuthoredPolicyGiven(p) ==
    /\ authored.phase = "idle"
    /\ authored.given < MaxAuthoredInputs
    /\ Len(authored.prs) > 0
    /\ authored' = [authored EXCEPT
                       !.given = @ + 1,
                       !.prs[Len(authored.prs)].policies = Append(@, p)]

\* the call computeAuthoredMetrics(prs, ctx)
AuthoredComputed ==
    /\ authored.phase = "idle"
    /\ authored' = [authored EXCEPT
                       !.phase = "returned",
                       !.result = computeAuthoredMetrics(authored.prs)]

(***************************************************************************)
(* businessDuration: the business time between two instants. A Date is its  *)
(* time in ms since the epoch (Num) or an invalid Date (NaN); a clock time  *)
(* is the text of its characters.                                           *)
(***************************************************************************)
MinuteMs == 60 * 1000
HourMs == 60 * MinuteMs
DayMs == 24 * HourMs

\* Thursday 1 January 1970 00:00 UTC is 0: day d at h:m
At(d, h, m) == d * DayMs + h * HourMs + m * MinuteMs

\* the instants given: the epoch, Friday 2 January 16:00 and 18:00, Saturday noon,
\* Monday 5 January 08:00, 10:00 and 17:30, Tuesday 09:30, and an invalid Date
BusinessInstants ==
    {NaN, Num(At(0, 0, 0)), Num(At(1, 16, 0)), Num(At(1, 18, 0)), Num(At(2, 12, 0)),
     Num(At(4, 8, 0)), Num(At(4, 10, 0)), Num(At(4, 17, 30)), Num(At(5, 9, 30))}

\* the schedules given: Mon-Fri 09:00-17:00; Mon and Wed 09:00-17:30; a start that is
\* not HH:mm; an end past 23:59; an end before the start; the weekend, with blanks
\* around the times
Schedules ==
    {[start |-> <<"0", "9", ":", "0", "0">>, end |-> <<"1", "7", ":", "0", "0">>,
      days |-> <<1, 2, 3, 4, 5>>],
     [start |-> <<"0", "9", ":", "0", "0">>, end |-> <<"1", "7", ":", "3", "0">>,
      days |-> <<1, 3>>],
     [start |-> <<"9", ":", "0", "0">>, end |-> <<"1", "7", ":", "0", "0">>,
      days |-> <<1, 2, 3, 4, 5>>],
     [start |-> <<"0", "9", ":", "0", "0">>, end |-> <<"2", "4", ":", "0", "0">>,
      days |-> <<1, 2, 3, 4, 5>>],
     [start |-> <<"1", "7", ":", "0", "0">>, end |-> <<"0", "9", ":", "0", "0">>,
      days |-> <<1, 2, 3, 4, 5>>],
     [start |-> <<" ", "0", "9", ":", "0", "0">>, end |-> <<"1", "7", ":", "0", "0", " ">>,
      days |-> <<0, 6>>]}

RECURSIVE TrimEnd(_)
TrimEnd(s) ==
    IF Len(s) > 0 /\ s[Len(s)] = " " THEN TrimEnd(SubSeq(s, 1, Len(s) - 1)) ELSE s

\* v.trim()
TrimText(s) == TrimEnd(SubSeq(s, SkipSpaces(s, 1), Len(s)))

\* parseHm(v): <<h, min>>, or NaN for [null, null]
parseHm(v) ==
    LET t == TrimText(v)
    IN IF /\ Len(t) = 5
          /\ t[3] = ":"
          /\ \A i \in {1, 2, 4, 5} : DigitValue(t[i]) >= 0
       THEN LET h == 10 * DigitValue(t[1]) + DigitValue(t[2])
                min == 10 * DigitValue(t[4]) + DigitValue(t[5])
            IN IF h < 0 \/ h > 23 \/ min < 0 \/ min > 59 THEN NaN ELSE <<h, min>>
       ELSE NaN

\* utcMidnight(d)
utcMidnight(t) == (t \div DayMs) * DayMs

\* cursor.getUTCDay(): 0 = Sunday; the epoch was a Thursday
getUTCDay(t) == (4 + (t \div DayMs)) % 7

\* addUtcDays(d, days)
addUtcDays(t, days) == t + days * DayMs

\* overlapMs(aStart, aEnd, bStart, bEnd)
overlapMs(aStart, aEnd, bStart, bEnd) ==
    Max(0, Min(aEnd, bEnd) - Max(aStart, bStart))

\* a loop that stops before the day of `end`
DayInRangeExclusive(cursor, lastDay) == cursor < lastDay

\* while (cursor.getTime() <= lastDay.getTime())
DayInRange(cursor, lastDay) == cursor <= lastDay

RECURSIVE BusinessLoop(_, _, _, _, _, _, _, _)
\* the loop of lines 278-287
BusinessLoop(cursor, lastDay, tStart, tEnd, s, e, days, total) ==
    IF ~DayInRange(cursor, lastDay) THEN total
    ELSE LET winStart == cursor + s[1] * HourMs + s[2] * MinuteMs
             winEnd == cursor + e[1] * HourMs + e[2] * MinuteMs
             overlap == overlapMs(tStart, tEnd, winStart, winEnd)
             included == \E i \in DOMAIN days : days[i] = getUTCDay(cursor)
         IN BusinessLoop(addUtcDays(cursor, 1), lastDay, tStart, tEnd, s, e, days,
                         IF included /\ overlap > 0 THEN total + overlap ELSE total)

\* businessDuration(start, end, schedule)
businessDuration(start, end, schedule) ==
    IF IsNaN(start) \/ IsNaN(end) THEN 0
    ELSE IF end[1] <= start[1] THEN 0
    ELSE IF IsNaN(parseHm(schedule.start)) \/ IsNaN(parseHm(schedule.end)) THEN 0
    ELSE BusinessLoop(utcMidnight(start[1]), utcMidnight(end[1]), start[1], end[1],
                      parseHm(schedule.start), parseHm(schedule.end), schedule.days, 0)

\* Fields: phase; start, end and schedule, the arguments; result, what was returned.
IdleBusiness ==
    [phase |-> "idle", start |-> NaN, end |-> NaN,
     schedule |-> [start |-> <<>>, end |-> <<>>, days |-> <<>>], result |-> 0]

\* the call businessDuration(start, end, schedule)
BusinessComputed(start, end, schedule) ==
    /\ business.phase = "idle"
    /\ business' = [phase |-> "returned", start |-> start, end |-> end,
                    schedule |-> schedule,
                    result |-> businessDuration(start, end, schedule)]

\* the caller takes up another interval
BusinessReset ==
    /\ business.phase = "returned"
    /\ business' = IdleBusiness

(***************************************************************************)
(* computePersonRollups: the sections of each person. The maps of the input *)
(* are held with the person they are keyed by; an absent section, like      *)
(* null, is NaN and a present one is <<section>>.                           *)
(***************************************************************************)
MaxRollupInputs == 4

\* the people given; rank is the place of displayName in the order of localeCompare
RollupPeople ==
    {[displayName |-> "bob", email |-> "bob@x.io", rank |-> 2],
     [displayName |-> "Ann", email |-> "Ann@x.io", rank |-> 1]}

\* the segments of a work item that went through the three stages
DoneTimeline ==
    <<Segment("toDo", <<>>, 0, 10), Segment("inProgress", <<>>, 10, 20),
      Segment("done", <<>>, 20, 30)>>

\* the work items given: one whose metrics the caller computed, one with nothing known,
\* one whose id is not a number, one with a timeline and a creation date only
RollupWorkItems ==
    {[id |-> Num(7), metrics |-> <<computeWorkItemMetrics(DoneTimeline, 0)>>,
      segments |-> <<>>, created |-> NaN],
     [id |-> Num(8), metrics |-> <<>>, segments |-> <<>>, created |-> NaN],
     [id |-> NaN, metrics |-> <<>>, segments |-> <<>>, created |-> NaN],
     [id |-> Num(9), metrics |-> <<>>, segments |-> DoneTimeline, created |-> Num(5)]}

\* the pull requests a person reviewed: whether the person commented or voted on it
ReviewedPrs == {[participated |-> TRUE, comments |-> 2], [participated |-> FALSE, comments |-> 0]}

\* nThreshold, in halves: -1, 0, 1, 1.5, 2
ThresholdHalves == {-2, 0, 2, 3, 4}

\* the locals of aggregateWorkItems before its loop
AggregateLocals ==
    [count |-> 0, completedTotal |-> 0, throughputTotal |-> 0, reworkCountTotal |-> 0,
     leadSum |-> 0, leadN |-> 0, cycleSum |-> 0, cycleN |-> 0,
     toDoMs |-> 0, inProgressMs |-> 0, doneMs |-> 0]

\* lines 155-164: the metrics of the work item, NaN if there are none
MetricsOf(wi) ==
    IF wi.metrics # <<>> THEN wi.metrics
    ELSE IF Len(wi.segments) > 0 /\ ~IsNaN(wi.created)
    THEN <<computeWorkItemMetrics(wi.segments, wi.created[1])>>
    ELSE NaN

\* one pass of the loop of lines 150-184
AggregateStep(wi, acc) ==
    IF IsNaN(wi.id) THEN acc
    ELSE IF IsNaN(MetricsOf(wi)) THEN [acc EXCEPT !.count = @ + 1]
    ELSE LET m == MetricsOf(wi)[1]
         IN [count |-> acc.count + 1,
             completedTotal |-> acc.completedTotal + (IF m.completed THEN 1 ELSE 0),
             throughputTotal |-> acc.throughputTotal + m.throughput,
             reworkCountTotal |-> acc.reworkCountTotal + m.reworkCount,
             leadSum |-> acc.leadSum + (IF IsNaN(m.leadTimeMs) THEN 0 ELSE m.leadTimeMs[1]),
             leadN |-> acc.leadN + (IF IsNaN(m.leadTimeMs) THEN 0 ELSE 1),
             cycleSum |-> acc.cycleSum + (IF IsNaN(m.cycleTimeMs) THEN 0 ELSE m.cycleTimeMs[1]),
             cycleN |-> acc.cycleN + (IF IsNaN(m.cycleTimeMs) THEN 0 ELSE 1),
             toDoMs |-> acc.toDoMs + m.timeInStateMs.toDo,
             inProgressMs |-> acc.inProgressMs + m.timeInStateMs.inProgress,
             doneMs |-> acc.doneMs + m.timeInStateMs.done]

RECURSIVE AggregateLoop(_, _, _)
AggregateLoop(wis, i, acc) ==
    IF i > Len(wis) THEN acc
    ELSE AggregateLoop(wis, i + 1, AggregateStep(wis[i], acc))

\* aggregateWorkItems(wis, segmentsByWi, metricsByWi, mapping, threshold)
aggregateWorkItems(wis, threshold) ==
    LET acc == AggregateLoop(wis, 1, AggregateLocals)
    IN [count |-> acc.count,
        completedTotal |-> acc.completedTotal,
        throughputTotal |-> acc.throughputTotal,
        leadTimeAvgMs |-> IF acc.leadN >= threshold /\ acc.leadN > 0
                          THEN Num(RoundedAverage(acc.leadSum, acc.leadN)) ELSE NaN,
        cycleTimeAvgMs |-> IF acc.cycleN >= threshold /\ acc.cycleN > 0
                           THEN Num(RoundedAverage(acc.cycleSum, acc.cycleN)) ELSE NaN,
        timeInStateMs |-> [toDo |-> acc.toDoMs, inProgress |-> acc.inProgressMs,
                           done |-> acc.doneMs],
        reworkCountTotal |-> acc.reworkCountTotal]

\* computeReviewMetrics(prs, reviewerId, ctx): the pull requests the reviewer took part
\* in, and the comments per such pull request
computeReviewMetrics(pulls) ==
    LET taken == SelectSeq(pulls, LAMBDA pr : pr.participated)
        commentsSum == IF Len(taken) = 0 THEN 0
                       ELSE Len(taken) * taken[1].comments
    IN IF Len(taken) = 0
       THEN [count |-> 0, responsivenessAvgMs |-> NaN, commentsAvg |-> NaN,
             crossTeamPct |-> NaN]
       ELSE [count |-> Len(taken), responsivenessAvgMs |-> NaN,
             commentsAvg |-> Ratio(commentsSum, Len(taken)), crossTeamPct |-> NaN]

\* Math.max(0, Math.floor(input.nThreshold ?? 0)) for nThreshold = h / 2
Threshold(h) == Max(0, (h - (h % 2)) \div 2)

\* a section is kept only above the threshold
HasSectionAbove(count, threshold) == count > threshold

\* lines 93-95: count >= threshold
HasSection(count, threshold) == count >= threshold

\* lines 96-105: the notes of an entry
NotesOf(counts, threshold) ==
    SelectSeq(
        <<IF ~HasSection(counts[1], threshold) THEN <<"Work item metrics suppressed">> ELSE <<>>,
          IF ~HasSection(counts[2], threshold) THEN <<"Authored PR metrics suppressed">> ELSE <<>>,
          IF ~HasSection(counts[3], threshold)
          THEN <<"Review participation metrics suppressed">> ELSE <<>>,
          IF HasSection(counts[1], threshold) /\ counts[1] <= threshold + 2
          THEN <<"Directional", counts[1]>> ELSE <<>>,
          IF HasSection(counts[2], threshold) /\ counts[2] <= threshold + 2
          THEN <<"Directional", counts[2]>> ELSE <<>>,
          IF HasSection(counts[3], threshold) /\ counts[3] <= threshold + 2
          THEN <<"Directional", counts[3]>> ELSE <<>> >>,
        LAMBDA note : note # <<>>)

\* lines 63-116: the entry of one person
EntryOf(p, threshold) ==
    LET wiAgg == aggregateWorkItems(p.wis, threshold)
        auth == computeAuthoredMetrics(p.prsAuth)
        reviewed == computeReviewMetrics(p.prsReviewed)
    IN [person |-> p.person,
        team |-> NaN,
        workItems |-> IF HasSection(wiAgg.count, threshold) THEN <<wiAgg>> ELSE NaN,
        prAuthored |-> IF HasSection(auth.count, threshold) THEN <<auth>> ELSE NaN,
        prReviewed |-> IF HasSection(reviewed.count, threshold) THEN <<reviewed>> ELSE NaN,
        notes |-> NotesOf(<<wiAgg.count, auth.count, reviewed.count>>, threshold)]

RECURSIVE InsertByName(_, _)
\* the place a stable sort by displayName gives an entry among those sorted before it
InsertByName(sorted, entry) ==
    IF Len(sorted) = 0 THEN <<entry>>
    ELSE IF sorted[Len(sorted)].person.rank <= entry.person.rank
    THEN Append(sorted, entry)
    ELSE Append(InsertByName(SubSeq(sorted, 1, Len(sorted) - 1), entry), sorted[Len(sorted)])

RECURSIVE SortedByName(_, _, _)
\* lines 120-124: items.sort by displayName
SortedByName(items, i, sorted) ==
    IF i > Len(items) THEN sorted
    ELSE SortedByName(items, i + 1, InsertByName(sorted, items[i]))

\* computePersonRollups(input).items, for nThreshold = h / 2
computePersonRollups(people, h) ==
    SortedByName([i \in 1..Len(people) |-> EntryOf(people[i], Threshold(h))], 1, <<>>)

\* Fields: phase; people, the persons passed, each with the work items and pull
\* requests the maps hold for it; given, how many inputs were given; nThreshold, in
\* halves; items, what was returned.
IdleRollups ==
    [phase |-> "idle", people |-> <<>>, given |-> 0, nThreshold |-> 0, items |-> <<>>]

\* the caller adds a person to input.people
RollupPersonGiven(person) ==
    /\ rollups.phase = "idle"
    /\ rollups.given < MaxRollupInputs
    /\ \A i \in DOMAIN rollups.people : rollups.people[i].person # person
    /\ rollups' = [rollups EXCEPT
                      !.given = @ + 1,
                      !.people = Append(@, [person |-> person, wis |-> <<>>,
                                            prsAuth |-> <<>>, prsReviewed |-> <<>>])]

\* wiByPerson holds one more work item for the last person
RollupWorkItemGiven(wi) ==
    /\ rollups.phase = "idle"
    /\ rollups.given < MaxRollupInputs
    /\ Len(rollups.people) > 0
    /\ rollups' = [rollups EXCEPT
                      !.given = @ + 1,
                      !.people[Len(rollups.people)].wis = Append(@, wi)]

\* prAuthoredByPerson holds one more pull request for the last person
RollupAuthoredGiven(pr) ==
    /\ rollups.phase = "idle"
    /\ rollups.given < MaxRollupInputs
    /\ Len(rollups.people) > 0
    /\ rollups' = [rollups EXCEPT
                      !.given = @ + 1,
                      !.people[Len(rollups.people)].prsAuth =
                          Append(@, [isDraft |-> pr.isDraft,
                                     creationDate |-> pr.creationDate,
                                     closedDate |-> pr.closedDate,
                                     status |-> pr.status,
                                     createdBy |-> pr.createdBy,
                                     iterations |-> pr.iterations,
                                     comments |-> <<>>, reviewers |-> <<>>,
                                     policies |-> <<>>])]

\* prReviewParticipationByPerson holds one more pull request for the last person
RollupReviewedGiven(pr) ==
    /\ rollups.phase = "idle"
    /\ rollups.given < MaxRollupInputs
    /\ Len(rollups.people) > 0
    /\ rollups' = [rollups EXCEPT
                      !.given = @ + 1,
                      !.people[Len(rollups.people)].prsReviewed = Append(@, pr)]

\* the call computePersonRollups(input) with nThreshold = h / 2
RollupsComputed(h) ==
    /\ rollups.phase = "idle"
    /\ rollups' = [rollups EXCEPT
                      !.phase = "returned", !.nThreshold = h,
                      !.items = computePersonRollups(rollups.people, h)]

InitAnalytics ==
    /\ sorter = IdleSorter
    /\ prs = IdlePrs
    /\ graph = IdleGraph
    /\ timeline = IdleTimeline
    /\ metrics = IdleMetrics
    /\ authored = IdleAuthored
    /\ business = IdleBusiness
    /\ rollups = IdleRollups

InitClient ==
    /\ pager = IdlePager("inline")
    /\ batch = IdleBatch("inline")
    /\ lister = IdleLister("inline")
    /\ InitAnalytics

Init == InitHttp /\ InitCache /\ InitClient /\ InitAnalytics

\* Callers of the cache with the default capacity: loads may resolve to a value or
\* to undefined, or reject.
NextCache ==
    \/ \E key \in Keys, ttl \in TtlHalfMs, bypass \in BOOLEAN :
          getOrSet(key, ttl, bypass) /\ UNCHANGED exceptCache
    \/ \E l \in 1..MaxLoads :
          \E out \in {Fulfilled(l), Fulfilled(Undefined), Rejected} :
             LoaderSettles(l, out) /\ UNCHANGED exceptCache
    \/ \E l \in 1..MaxLoads : Resume(l) /\ UNCHANGED exceptCache
    \/ Tick /\ UNCHANGED exceptCache

SpecCache == Init /\ [][NextCache]_vars

\* A run of the loader of listWorkItemUpdatesPaged in either version of the client,
\* against a remote that answers each request with any page or fails it.
InitPaged ==
    /\ InitHttp
    /\ InitCache
    /\ \E build \in Builds : pager = IdlePager(build)
    /\ batch = IdleBatch("inline")
    /\ lister = IdleLister("inline")
    /\ InitAnalytics

NextPaged ==
    \/ PagedStart /\ UNCHANGED <<httpVars, cacheVars, batch, lister, analyticsVars>>
    \/ \E json \in Pages : PageArrives(json) /\ UNCHANGED <<httpVars, cacheVars, batch, lister, analyticsVars>>
    \/ PageFetchFails /\ UNCHANGED <<httpVars, cacheVars, batch, lister, analyticsVars>>

\* A call of getWorkItemsBatch in either version of the client: the chunks are
\* answered in any order, each with any of the bodies.
InitBatch ==
    /\ InitHttp
    /\ InitCache
    /\ pager = IdlePager("inline")
    /\ \E build \in Builds : batch = IdleBatch(build)
    /\ lister = IdleLister("inline")
    /\ InitAnalytics

NextBatch ==
    \/ \E ids \in BatchInputs : BatchStart(ids) /\ UNCHANGED <<httpVars, cacheVars, pager, lister, analyticsVars>>
    \/ \E k \in 1..2 : \E json \in BatchResponses(Chunk(batch.ids, k)) :
          ChunkCompletes(k, json) /\ UNCHANGED <<httpVars, cacheVars, pager, lister, analyticsVars>>

SpecBatch == InitBatch /\ [][NextBatch]_vars

\* Callers of listPRReviewers in either version of the client: every fetch is answered
\* with any of the bodies or fails.
InitList ==
    /\ InitHttp
    /\ InitCache
    /\ pager = IdlePager("inline")
    /\ batch = IdleBatch("inline")
    /\ \E build \in Builds : lister = IdleLister(build)
    /\ InitAnalytics

NextList ==
    \/ \E key \in Keys : ListCall(key) /\ UNCHANGED <<httpVars, pager, batch, analyticsVars>>
    \/ \E l \in 1..MaxLoads : \E json \in ListBodies :
          ListResponds(l, json) /\ UNCHANGED <<httpVars, pager, batch, analyticsVars>>
    \/ \E l \in 1..MaxLoads : ListFetchFails(l) /\ UNCHANGED <<httpVars, pager, batch, analyticsVars>>
    \/ \E l \in 1..MaxLoads : Resume(l) /\ UNCHANGED <<httpVars, pager, batch, lister, analyticsVars>>
    \/ Tick /\ UNCHANGED <<httpVars, pager, batch, lister, analyticsVars>>

SpecList == InitList /\ [][NextList]_vars

\* The loader of listWorkItemUpdatesPaged from the updates the pages delivered, in
\* any order, to the sorted list it returns.
NextSort ==
    \/ \E d \in RevisedDates :
          UpdateArrives(d) /\ UNCHANGED <<httpVars, cacheVars, clientVars, prs, graph, timeline, metrics, reportVars>>
    \/ SortAndReturn /\ UNCHANGED <<httpVars, cacheVars, clientVars, prs, graph, timeline, metrics, reportVars>>

SpecSort == Init /\ [][NextSort]_vars

\* A run of the loader of listPullRequests in either version of the client: the
\* searches are answered in any order, each with any of the bodies.
NextPrs ==
    \/ \E build \in Builds, input \in TargetRefInputs :
          PrsStart(build, input)
             /\ UNCHANGED <<httpVars, cacheVars, clientVars, sorter, graph, timeline, metrics, reportVars>>
    \/ \E k \in 1..3 : \E json \in PrResponses :
          SearchCompletes(k, json)
             /\ UNCHANGED <<httpVars, cacheVars, clientVars, sorter, graph, timeline, metrics, reportVars>>

SpecPrs == Init /\ [][NextPrs]_vars

\* Callers of listGraphUsers, with and without bypass; its loader returns the users
\* or fails.
NextGraph ==
    \/ \E asked \in BOOLEAN :
          listGraphUsers(asked)
             /\ UNCHANGED <<httpVars, clientVars, sorter, prs, timeline, metrics, reportVars>>
    \/ \E l \in 1..MaxLoads : \E out \in {Fulfilled(l), Rejected} :
          LoaderSettles(l, out) /\ UNCHANGED exceptCache
    \/ \E l \in 1..MaxLoads : Resume(l) /\ UNCHANGED exceptCache
    \/ Tick /\ UNCHANGED exceptCache

SpecGraph == Init /\ [][NextGraph]_vars

\* A call of buildSegments with any list of updates, with or without a window.
NextTimeline ==
    \/ \E u \in TimelineUpdates :
          TimelineUpdateGiven(u)
             /\ UNCHANGED <<httpVars, cacheVars, clientVars, sorter, prs, graph, metrics, reportVars>>
    \/ \E window \in Windows :
          buildSegments(window)
             /\ UNCHANGED <<httpVars, cacheVars, clientVars, sorter, prs, graph, metrics, reportVars>>

SpecTimeline == Init /\ [][NextTimeline]_vars

\* A call of computeWorkItemMetrics with any contiguous list of segments.
NextMetrics ==
    \/ \E state \in SegmentStates, dur \in SegmentDurations :
          MetricsSegmentGiven(state, dur)
             /\ UNCHANGED <<httpVars, cacheVars, clientVars, sorter, prs, graph, timeline, reportVars>>
    \/ \E createdAt \in CreationTimes :
          MetricsComputed(createdAt)
             /\ UNCHANGED <<httpVars, cacheVars, clientVars, sorter, prs, graph, timeline, reportVars>>

SpecMetrics == Init /\ [][NextMetrics]_vars

\* The metrics of a work item over a period: its updates, buildSegments with or
\* without the window of the period, then computeWorkItemMetrics on what it returned.
NextPeriod ==
    \/ \E u \in TimelineUpdates :
          TimelineUpdateGiven(u)
             /\ UNCHANGED <<httpVars, cacheVars, clientVars, sorter, prs, graph, metrics, reportVars>>
    \/ \E window \in PeriodWindows :
          buildSegments(window)
             /\ UNCHANGED <<httpVars, cacheVars, clientVars, sorter, prs, graph, metrics, reportVars>>
    \/ \E createdAt \in CreationTimes :
          MetricsOfTimeline(createdAt)
             /\ UNCHANGED <<httpVars, cacheVars, clientVars, sorter, prs, graph, timeline, reportVars>>

SpecPeriod == Init /\ [][NextPeriod]_vars


\* A call of computeAuthoredMetrics with any pull requests, comments, reviewers and
\* policy evaluations.
NextAuthored ==
    \/ \E pr \in AuthoredPrs :
          AuthoredPrGiven(pr) /\ UNCHANGED <<httpVars, cacheVars, clientVars, sorter, prs, graph, timeline, metrics, business, rollups>>
    \/ \E c \in AuthoredComments :
          AuthoredCommentGiven(c) /\ UNCHANGED <<httpVars, cacheVars, clientVars, sorter, prs, graph, timeline, metrics, business, rollups>>
    \/ \E r \in AuthoredReviewers :
          AuthoredReviewerGiven(r) /\ UNCHANGED <<httpVars, cacheVars, clientVars, sorter, prs, graph, timeline, metrics, business, rollups>>
    \/ \E p \in AuthoredPolicies :
          AuthoredPolicyGiven(p) /\ UNCHANGED <<httpVars, cacheVars, clientVars, sorter, prs, graph, timeline, metrics, business, rollups>>
    \/ AuthoredComputed /\ UNCHANGED <<httpVars, cacheVars, clientVars, sorter, prs, graph, timeline, metrics, business, rollups>>

SpecAuthored == Init /\ [][NextAuthored]_vars

\* Calls of businessDuration with any of the instants and schedules.
NextBusiness ==
    \/ \E start \in BusinessInstants, end \in BusinessInstants, schedule \in Schedules :
          BusinessComputed(start, end, schedule) /\ UNCHANGED <<httpVars, cacheVars, clientVars, sorter, prs, graph, timeline, metrics, authored, rollups>>
    \/ BusinessReset /\ UNCHANGED <<httpVars, cacheVars, clientVars, sorter, prs, graph, timeline, metrics, authored, rollups>>

SpecBusiness == Init /\ [][NextBusiness]_vars

\* A call of computePersonRollups with any people, work items and pull requests.
NextRollups ==
    \/ \E person \in RollupPeople : RollupPersonGiven(person) /\ UNCHANGED <<httpVars, cacheVars, clientVars, sorter, prs, graph, timeline, metrics, authored, business>>
    \/ \E wi \in RollupWorkItems : RollupWorkItemGiven(wi) /\ UNCHANGED <<httpVars, cacheVars, clientVars, sorter, prs, graph, timeline, metrics, authored, business>>
    \/ \E pr \in AuthoredPrs : RollupAuthoredGiven(pr) /\ UNCHANGED <<httpVars, cacheVars, clientVars, sorter, prs, graph, timeline, metrics, authored, business>>
    \/ \E pr \in ReviewedPrs : RollupReviewedGiven(pr) /\ UNCHANGED <<httpVars, cacheVars, clientVars, sorter, prs, graph, timeline, metrics, authored, business>>
    \/ \E h \in ThresholdHalves : RollupsComputed(h) /\ UNCHANGED <<httpVars, cacheVars, clientVars, sorter, prs, graph, timeline, metrics, authored, business>>

SpecRollups == Init /\ [][NextRollups]_vars




\* every request is eventually answered or fails
SpecPaged ==
    /\ InitPaged
    /\ [][NextPaged]_vars
    /\ WF_vars(NextPaged)

\* Callers of a cache whose capacity is configured small: three keys, loads that
\* resolve to a value, entries that stay fresh for a while.
NextLru ==
    \/ \E h \in MaxEntriesHalves : configureCache(h) /\ UNCHANGED exceptCache
    \/ \E key \in LruKeys : getOrSetWithin(key, 3, FALSE, MaxLruLoads) /\ UNCHANGED exceptCache
    \/ \E l \in 1..MaxLruLoads : LoaderSettles(l, Fulfilled(l)) /\ UNCHANGED exceptCache
    \/ \E l \in 1..MaxLruLoads : Resume(l) /\ UNCHANGED exceptCache
    \/ Tick /\ UNCHANGED exceptCache

SpecLru == Init /\ [][NextLru]_vars

\* One call against a remote that answers with any status and Retry-After header.
NextFetch ==
    \/ HttpStep(1, Statuses, RetryAfterHeaders, NowValues, JitterValues) /\ UNCHANGED exceptHttp
    \/ FaultStep(1, NowValues, JitterValues) /\ UNCHANGED exceptHttp
    \/ NextMicrotask /\ UNCHANGED exceptHttp

SpecFetch == Init /\ [][NextFetch]_vars

\* MaxCalls calls sharing the limiter, against a remote that answers every attempt
\* in time, with 200 and a JSON body or with 503 and no Retry-After header.
NextLimit ==
    \/ \E c \in Calls : HttpStep(c, {200, 503}, {NoHeader}, {1000}, {0}) /\ UNCHANGED exceptHttp
    \/ NextMicrotask /\ UNCHANGED exceptHttp

SpecLimit == Init /\ [][NextLimit]_vars

\* the calls of the cancellation scenario
CancelCalls == {1, 2}

\* the reasons init.signal may abort with
AbortReasons == {"AbortError", "other"}

\* Calls whose callers may cancel them through init.signal; the remote answers 200, 404
\* or 503.
NextCancel ==
    \/ \E c \in CancelCalls :
          HttpStep(c, {200, 404, 503}, {NoHeader}, {1000}, {0}) /\ UNCHANGED exceptHttp
    \/ \E c \in CancelCalls : JsonFails(c) /\ UNCHANGED exceptHttp
    \/ \E c \in CancelCalls, reason \in AbortReasons :
          UserAbort(c, reason, 1000, 0) /\ UNCHANGED exceptHttp
    \/ NextMicrotask /\ UNCHANGED exceptHttp

SpecCancel == Init /\ [][NextCancel]_vars

\* More calls than slots, each answered at its first attempt: 200 with a JSON body, or
\* 404.
NextQueue ==
    \/ \E c \in QueueCalls :
          HttpStep(c, {200, 404}, {NoHeader}, {1000}, {0}) /\ UNCHANGED exceptHttp
    \/ NextMicrotask /\ UNCHANGED exceptHttp

SpecQueue == Init /\ [][NextQueue]_vars

\* the steps by which an admitted call of the queueing scenario goes on to settle
ProgressOf(c) ==
    /\ \/ \E status \in {200, 404} : FetchResponds(c, status, NoHeader)
       \/ BodyRead(c, 1000, 0)
       \/ BackoffElapsed(c)
       \/ JsonParsed(c)
    /\ UNCHANGED exceptHttp

\* The queueing scenario where queued microtasks are run (the event loop does not
\* starve them) and every admitted call goes on until it settles.
SpecQueueFair ==
    /\ Init
    /\ [][NextQueue]_vars
    /\ WF_vars(NextMicrotask /\ UNCHANGED exceptHttp)
    /\ \A c \in QueueCalls : WF_vars(ProgressOf(c))

(***************************************************************************)
(* Properties of the fetch layer                                           *)
(***************************************************************************)
\* calls admitted by the limiter that have not settled
Admitted == {c \in QueueCalls : calls[c].phase \in {"fetch", "text", "json", "backoff"}}

\* calls whose fetch is awaiting its response
Fetching == {c \in QueueCalls : calls[c].phase = "fetch"}

Retryable(status) == status = 429 \/ status >= 500

\* C1: the number of calls admitted by the limiter and not yet settled, and so the
\* number of fetches in flight, never exceeds the configured concurrency limit.
C1_AtMostNInFlight ==
    /\ Cardinality(Admitted) <= concurrency
    /\ Cardinality(Fetching) <= concurrency

\* the limit is reached while a further call waits in the queue
C1_Witness ==
    /\ Cardinality(Admitted) = concurrency
    /\ Cardinality(Fetching) = concurrency
    /\ queue # <<>>

\* C3: a call never issues a 5th fetch, and a call that ended on a 429/5xx response
\* without any timeout (so every response it got was 429/5xx) has issued exactly 4
\* fetches and failed with an AdoHttpError whose attempt is 4.
C3_FourAttemptsThenError ==
    \A c \in Calls :
        /\ calls[c].fetches <= 4
        /\ (calls[c].phase = "done" /\ Retryable(calls[c].status) /\ ~calls[c].aborted)
              => /\ calls[c].fetches = 4
                 /\ calls[c].result.kind = "AdoHttpError"
                 /\ calls[c].result.attempt = 4

\* the 4th response was a 503 and the call has failed
C3_Witness ==
    /\ calls[1].phase = "done"
    /\ calls[1].status = 503
    /\ ~calls[1].aborted
    /\ calls[1].fetches = 4
    /\ calls[1].result.kind = "AdoHttpError"
    /\ calls[1].result.attempt = 4

\* C4 (as claimed): once the timer of an attempt has expired, the call has failed with
\* the timeout error (408) whose attempt is the attempt that timed out, and it issues
\* no further fetch: it is never waiting to retry.
C4_TimeoutEndsTheCall ==
    \A c \in Calls :
        calls[c].aborted =>
            /\ calls[c].phase = "done"
            /\ calls[c].timedOut
            /\ calls[c].result = AdoTimeoutError(c, calls[c].attempt)

\* C5 (as claimed): a call that ended on a non-2xx response, without any timeout,
\* failed with an error whose status is that response's status, and whose url and
\* attempt are those of the call.
C5_ErrorCarriesResponseStatus ==
    \A c \in Calls :
        (calls[c].phase = "done" /\ calls[c].status \notin {0, 200} /\ ~calls[c].aborted)
            => /\ calls[c].result.status = calls[c].status
               /\ calls[c].result.url = c
               /\ calls[c].result.attempt = calls[c].attempt

\* the call ended on the attempt it was in, with an error, without a further fetch and
\* without a backoff wait
EndedOnSameAttempt(a, b) ==
    /\ b.phase = "done"
    /\ b.result.kind \in {"AdoHttpError", "AdoTimeoutError"}
    /\ b.result.attempt = a.attempt
    /\ b.attempt = a.attempt
    /\ b.fetches = a.fetches

C6_Step(c) ==
    LET a == calls[c]
        b == calls'[c]
    IN \* a 4xx other than 429: whatever happens next ends the call
       /\ (a.phase = "text" /\ a.status \in 400..499 /\ a.status # 429 /\ b # a)
             => EndedOnSameAttempt(a, b)
       \* a 2xx whose body is being parsed: the call returns, or ends if the parse fails
       /\ (a.phase = "json" /\ b # a)
             => \/ b.phase = "done" /\ b.result = Returned(c, a.attempt)
                \/ EndedOnSameAttempt(a, b) /\ b.result.kind = "AdoHttpError"
       \* fetch settles without a response (network error): the call ends
       /\ (a.phase = "fetch" /\ b # a /\ b.phase \notin {"text", "json"})
             => EndedOnSameAttempt(a, b)

\* C6: a 4xx response other than 429, a 2xx response whose body is not JSON, and a
\* network error each end the call on that same attempt with an AdoHttpError (of which
\* the timeout error is a kind): no backoff wait starts, no further fetch is issued.
C6_NonRetryableEndsAtOnce ==
    /\ [][\A c \in Calls : C6_Step(c)]_vars
    /\ [](\A c \in Calls : calls[c].phase = "backoff" => Retryable(calls[c].status))

\* a 404 on the first attempt has ended the call
C6_Witness ==
    /\ calls[1].phase = "done"
    /\ calls[1].status = 404
    /\ calls[1].fetches = 1
    /\ calls[1].result.kind = "AdoHttpError"
    /\ calls[1].result.attempt = 1

\* the jitter is an integer in 0..100
JitterRange == 0..100

\* C7 (as claimed): the wait after a retryable response on attempt k is s*1000 ms when
\* Retry-After parses as an integer s, and otherwise 300 * 2^k ms plus the jitter.
C7_DelayAsClaimed ==
    \A c \in Calls :
        calls[c].phase = "backoff" =>
            LET s == ParseInt(calls[c].header.text)
            IN IF ~IsNaN(s)
               THEN calls[c].delayMs = s[1] * 1000
               ELSE calls[c].delayMs - 300 * Pow2(calls[c].attempt) \in JitterRange

\* the wait that C7, as amended, states for a retryable response on attempt k
C7_Wait(c) ==
    LET s == ParseInt(calls[c].header.text)
        d == calls[c].header.dateMs
    IN IF ~IsNaN(s) THEN {IF s[1] < 0 THEN 0 ELSE s[1] * 1000}
       ELSE IF ~IsNaN(d) THEN {IF d[1] < t THEN 0 ELSE d[1] - t : t \in NowValues}
       ELSE {300 * Pow2(calls[c].attempt) + j : j \in JitterRange}

\* C7 (amended): the wait is s*1000 ms, or 0 if s is negative, when Retry-After parses
\* as an integer s; the time left until the date, or 0 if it is past, when Retry-After
\* is an HTTP date; otherwise 300 * 2^k ms plus a jitter in 0..100 ms.  The next
\* attempt starts only when the timer of that wait fires.
C7_DelayAmended ==
    /\ [](\A c \in Calls : calls[c].phase = "backoff" =>
             /\ calls[c].attempt \in 1..3
             /\ Retryable(calls[c].status)
             /\ calls[c].delayMs \in C7_Wait(c))
    /\ [][\A c \in Calls : calls'[c].attempt > calls[c].attempt /\ calls[c].attempt >= 1
             => calls[c].phase = "backoff" /\ calls'[c].attempt = calls[c].attempt + 1]_vars

\* a 429 with Retry-After: 1 on attempt 1: the call waits 1000 ms
C7_Witness ==
    /\ calls[1].phase = "backoff"
    /\ calls[1].attempt = 1
    /\ calls[1].status = 429
    /\ calls[1].header.text = <<"1">>
    /\ calls[1].delayMs = 1000

(***************************************************************************)
(* Properties of the cache                                                 *)
(***************************************************************************)
\* the non-bypass loads for key whose loader has not settled
InProgress(key) ==
    {l \in 1..Len(loads) : ~loads[l].bypass /\ loads[l].key = key /\ loads[l].state = Pending}

\* the non-bypass loads for key whose loader has rejected and whose starting call has
\* not resumed yet
Failed(key) ==
    {l \in 1..Len(loads) : ~loads[l].bypass /\ loads[l].key = key /\ loads[l].state = Rejected}

\* the step is a non-bypass getOrSet call for key
IsGet(key) ==
    op'.kind = "getOrSet" /\ ~op'.bypass /\ op'.key = key

\* C2: per key at most one non-bypass loader invocation is in progress, and it is the
\* one registered in flight; a non-bypass call arriving meanwhile, whether or not the
\* store holds an expired entry of the key, invokes no loader and gets the promise of
\* that load; the call that started the load receives what the load settled with, as
\* the callers holding its promise do.
C2_OneLoadPerKey ==
    /\ [](\A k \in Keys : /\ Cardinality(InProgress(k)) <= 1
                          /\ \A l \in InProgress(k) : inFlight[k] = l)
    /\ [][\A k \in Keys : \A l \in InProgress(k) :
             IsGet(k) => /\ op'.path = "join"
                         /\ op'.load = l
                         /\ Len(loads') = Len(loads)
                         /\ loads'[l].joined]_vars
    /\ [][op'.kind = "resume" /\ op'.load \in 1..Len(loads)
             => op'.outcome = loads[op'.load].state]_vars

\* two calls shared one load, and the starting call has received the load's value
C2_Witness ==
    /\ op.kind = "resume"
    /\ op.joined
    /\ op.outcome.kind = "value"
    /\ op.outcome.value # Undefined
    /\ Len(loads) = 1

\* what the claim calls a usable entry: it exists, holds a value, now < expiresAt
Usable(key) ==
    \E i \in 1..Len(store) :
        /\ store[i].key = key
        /\ store[i].value # Undefined
        /\ now < store[i].expiresAt

C8_Step(k) ==
    IsGet(k) =>
        /\ op'.path = "hit" <=> Usable(k)
        /\ op'.path = "hit" =>
              /\ op'.outcome = Fulfilled(StoreGet(store, k).value)
              /\ loads' = loads
        \* an entry that is there but not usable: the loader is invoked again
        /\ (StoreHas(store, k) /\ ~Usable(k)) =>
              /\ op'.path = "load"
              /\ Len(loads') = Len(loads) + 1
              /\ loads'[Len(loads')].state = Pending

\* C8: a non-bypass getOrSet returns the stored value without invoking the loader iff
\* the key has an entry that holds a value with now strictly before its expiresAt;
\* a successful load stores expiresAt = now + max(0, floor(ttlMs)), so that once the
\* ttl has elapsed the next call invokes the loader again.
C8_FreshIffUsable ==
    /\ [][\A k \in Keys : C8_Step(k)]_vars
    /\ [][(op'.kind = "resume" /\ op'.load \in 1..Len(loads) /\ op'.outcome.kind = "value")
             => /\ StoreHas(store', op'.key)
                /\ StoreGet(store', op'.key).value = op'.outcome.value
                /\ StoreGet(store', op'.key).expiresAt =
                      now + (IF loads[op'.load].ttl < 0 THEN 0 ELSE loads[op'.load].ttl \div 2)]_vars

\* a call has returned the stored value after time has passed since the load
C8_Witness ==
    /\ op.kind = "getOrSet"
    /\ op.path = "hit"
    /\ op.outcome = Fulfilled(1)
    /\ StoreHas(store, op.key)
    /\ StoreGet(store, op.key).expiresAt > now

\* C9: when a loader invocation fails, the call that started the load receives that
\* failure once it resumes, which it can always do; the callers that joined hold the
\* very promise that rejected; and nothing is stored.
C9_FailureReachesAllWaiters ==
    /\ [][\A k \in Keys : \A l \in Failed(k) :
             /\ (op'.kind = "resume" /\ op'.load = l)
                   => op'.outcome = Rejected /\ store' = store
             /\ (IsGet(k) /\ op'.path = "join")
                   => op'.load = l /\ op'.outcome = Rejected]_vars
    /\ [][op'.kind = "settle" /\ op'.load \in 1..Len(loads) /\ op'.outcome = Rejected
             => \/ loads[op'.load].bypass
                \/ loads'[op'.load].state = Rejected]_vars
    /\ [](\A k \in Keys : \A l \in Failed(k) : ENABLED Resume(l))

\* the call that started a load that another call had joined has received the failure
C9_Witness ==
    /\ op.kind = "resume"
    /\ op.joined
    /\ op.outcome = Rejected

\* C10 (as claimed): once a loader invocation for a key has failed, the key has no
\* in-flight marker and no stored value.
C10_NoMarkerOnceFailed ==
    \A k \in Keys : Failed(k) # {} => inFlight[k] = 0 /\ ~StoreHas(store, k)

\* C10 (amended): once the call that started the failed load has resumed, the key has
\* no in-flight marker and no stored value, and the next non-bypass getOrSet for the
\* key invokes its loader; until then the marker is the failed load's, which its
\* starting call can always resume from; a marker never refers to a finished load.
C10_MarkerClearedOnResume ==
    /\ [](op.kind = "resume" /\ op.outcome = Rejected
            => inFlight[op.key] = 0 /\ ~StoreHas(store, op.key))
    /\ [][(op.kind = "resume" /\ op.outcome = Rejected /\ IsGet(op.key))
            => /\ op'.path = "load"
               /\ Len(loads') = Len(loads) + 1
               /\ loads'[Len(loads')].state = Pending]_vars
    /\ [](\A k \in Keys : inFlight[k] # 0 =>
            /\ inFlight[k] \in 1..Len(loads)
            /\ loads[inFlight[k]].key = k
            /\ loads[inFlight[k]].state # DoneLoad.state
            /\ loads[inFlight[k]].state # Pending => ENABLED Resume(inFlight[k]))

\* after a failed load the key is being loaded again
C10_Witness ==
    /\ op.kind = "getOrSet"
    /\ op.path = "load"
    /\ op.load = 2
    /\ loads[1] = DoneLoad
    /\ inFlight[op.key] = 2
    /\ ~StoreHas(store, op.key)

(***************************************************************************)
(* Properties of eviction and of bypass                                    *)
(***************************************************************************)
\* the keys of the store, least recently used first
KeysOf(st) == [i \in 1..Len(st) |-> st[i].key]

\* the order of keys once key has been touched: key is the most recently used
Touched(ks, key) == Append(SelectSeq(ks, LAMBDA x : x # key), key)

\* the last n elements of a sequence
Newest(ks, n) == IF Len(ks) > n THEN SubSeq(ks, Len(ks) - n + 1, Len(ks)) ELSE ks

C11_Step(k) ==
    /\ \* a fresh hit is a touch: the key becomes the most recently used
       (IsGet(k) /\ op'.path = "hit") => KeysOf(store') = Touched(KeysOf(store), k)
    /\ \* a call that misses only drops the key's expired entry
       (IsGet(k) /\ op'.path # "hit") =>
           KeysOf(store') = SelectSeq(KeysOf(store), LAMBDA x : x # k)
    /\ \* a store is a touch, after which the least recently touched keys are evicted
       \* until capacity entries remain
       (op'.kind = "resume" /\ op'.key = k /\ op'.outcome.kind = "value") =>
           /\ KeysOf(store') = Newest(Touched(KeysOf(store), k), maxEntries)
           /\ Len(Touched(KeysOf(store), k)) > maxEntries => Len(store') = maxEntries
           /\ store'[Len(store')].key = k

\* C11: the store never holds more than capacity entries; a fresh hit and a store make
\* the key the most recently touched and leave the order of the others; when a store
\* makes the entries exceed the capacity, the least recently touched are evicted until
\* exactly capacity entries remain, so that a key touched more recently than another
\* is never evicted before it.
C11_LeastRecentlyTouchedEvicted ==
    /\ [](Len(store) <= maxEntries)
    /\ [][\A k \in LruKeys : C11_Step(k)]_vars
    /\ [][op'.kind \in {"settle", "tick"} => store' = store]_vars

\* capacity 2: the key loaded first was read again before a third key was stored, and
\* the key loaded second is the one that was evicted
C11_Witness ==
    /\ op.kind = "resume"
    /\ maxEntries = 2
    /\ Len(store) = 2
    /\ store[1].value = 1
    /\ store[2].value = 3

\* the step is a getOrSet call with bypass set
IsBypass == op'.kind = "getOrSet" /\ op'.bypass

\* C12: a getOrSet call with bypass set invokes its loader once and returns the
\* loader's own promise, whatever the store and the in-flight markers hold for the key;
\* neither the call nor the settling of that promise changes the stored entries, their
\* order or the in-flight markers, and no value of a bypass load is ever stored.
C12_BypassLeavesCacheUntouched ==
    /\ [][IsBypass =>
            /\ op'.path = "bypass"
            /\ Len(loads') = Len(loads) + 1
            /\ op'.load = Len(loads')
            /\ loads'[op'.load] = NewLoad(op'.key, TRUE, loads'[op'.load].ttl)
            /\ \A l \in 1..Len(loads) : loads'[l] = loads[l]
            /\ store' = store
            /\ inFlight' = inFlight]_vars
    /\ [][\A l \in 1..Len(loads) : loads[l].bypass =>
            /\ loads'[l] # loads[l] =>
                  /\ op'.kind = "settle" /\ op'.load = l
                  /\ op'.outcome \in {Fulfilled(l), Fulfilled(Undefined), Rejected}
                  /\ loads'[l] = DoneLoad
                  /\ store' = store
                  /\ inFlight' = inFlight
            /\ ~(op'.kind = "resume" /\ op'.load = l)]_vars
    /\ [](\A k \in Keys : inFlight[k] # 0 => ~loads[inFlight[k]].bypass)

\* a bypass call has invoked its loader although the key has a fresh stored value
C12_Witness ==
    /\ op.kind = "getOrSet"
    /\ op.bypass
    /\ op.path = "bypass"
    /\ Usable(op.key)
    /\ loads[op.load].state = Pending

(***************************************************************************)
(* Properties of the limiter's queue                                       *)
(***************************************************************************)
\* the call's task has been started by next(): it has issued its first fetch
Started(c) == calls[c].phase \notin {"idle", "queued"}

\* calls waiting in the queue although every slot is taken
Waiting == IF activeCount >= concurrency THEN {queue[i] : i \in 1..Len(queue)} ELSE {}

\* C13: calls are numbered in submission order.  The queue holds the waiting calls in
\* that order, and a call is never started while a call submitted before it is still
\* waiting: of two calls that had to queue, the earlier issues its first fetch first.
C13_FifoAdmission ==
    /\ \A a, b \in QueueCalls : (a < b /\ Started(b)) => Started(a)
    /\ \A i, j \in 1..Len(queue) : i < j => queue[i] < queue[j]
    /\ \A c \in QueueCalls : calls[c].phase = "queued" <=> \E i \in 1..Len(queue) : queue[i] = c

\* two calls had to wait for a slot; the earlier has been started, the later still waits
C13_Witness ==
    /\ \E a, b \in QueueCalls :
          /\ a < b
          /\ calls[a].phase = "fetch" /\ calls[a].fetches = 1
          /\ b \in Waiting
          /\ \E d \in QueueCalls : d < a /\ calls[d].phase = "done"
    /\ Cardinality(Admitted) = concurrency
    /\ Cardinality({c \in QueueCalls : Started(c)}) > concurrency

\* the calls that settle in the step, and those that are started in it
SettlingNow == {c \in QueueCalls : calls[c].phase # "done" /\ calls'[c].phase = "done"}
StartingNow == {c \in QueueCalls : calls[c].phase = "queued" /\ calls'[c].phase = "fetch"}

\* C14: the active count is the number of calls started and not yet settled, whatever
\* attempt or backoff wait they are in: a slot is taken when the call is started,
\* given back in the step in which the call settles and at no other time; the count
\* is never negative, and it is 0 when every submitted call has settled.
C14_SlotHeldUntilSettled ==
    /\ [](activeCount = Cardinality(Admitted))
    /\ [](activeCount >= 0)
    /\ []((\A c \in QueueCalls : calls[c].phase \in {"idle", "done"}) => activeCount = 0)
    /\ [][/\ activeCount' = activeCount - Cardinality(SettlingNow) + Cardinality(StartingNow)
          /\ Cardinality(SettlingNow) <= 1
          /\ \A c \in QueueCalls : calls[c].phase = "done" => calls'[c] = calls[c]]_vars

\* a call is in its second backoff wait and holds its slot, with all slots taken and a
\* call waiting in the queue
C14_Witness ==
    /\ \E c \in QueueCalls : calls[c].phase = "backoff" /\ calls[c].attempt = 2
    /\ activeCount = concurrency
    /\ queue # <<>>

\* C15: provided queued microtasks run and every admitted call goes on to settle, every
\* submitted call is eventually started (it issues its fetch) and eventually settles;
\* there is no lost wake-up: whenever a slot is free and the queue is not empty, a run
\* of next() is pending.
C15_EverySubmittedCallAdmitted ==
    /\ \A c \in QueueCalls : (calls[c].phase = "queued") ~> (calls[c].fetches >= 1)
    /\ \A c \in QueueCalls : (calls[c].phase = "queued") ~> (calls[c].phase = "done")
    /\ []((activeCount < concurrency /\ queue # <<>>) => pendingNext > 0)

\* more calls than slots were submitted, and all have issued their fetch and settled
C15_Witness ==
    /\ \A c \in QueueCalls : calls[c].phase = "done" /\ calls[c].fetches >= 1
    /\ MaxQueueCalls > concurrency
    /\ activeCount = 0
    /\ queue = <<>>

(***************************************************************************)
(* Properties of cancellation by the caller                                *)
(***************************************************************************)
\* init.signal aborts in the step, while call c awaits the response of an attempt
CancelledWhileFetching(c) ==
    /\ calls[c].phase = "fetch"
    /\ calls[c].userAbort = "no"
    /\ calls'[c].userAbort # "no"

\* C16: when the caller's signal aborts while an attempt awaits its response, the call
\* fails in that step, on that attempt, with an error; a settled call takes no further
\* step, so no retry follows; and a call whose caller has cancelled never returns a
\* successful result afterwards.
C16_CancelEndsTheCall ==
    /\ [][\A c \in Calls : CancelledWhileFetching(c) =>
            /\ calls'[c].phase = "done"
            /\ calls'[c].result.kind \in {"AdoHttpError", "AdoTimeoutError"}
            /\ calls'[c].result.attempt = calls[c].attempt
            /\ calls'[c].fetches = calls[c].fetches]_vars
    /\ [][\A c \in Calls : calls[c].phase = "done" => calls'[c] = calls[c]]_vars
    /\ [][\A c \in Calls : (calls[c].userAbort # "no" /\ calls[c].phase # "done")
            => calls'[c].result.kind # "Returned"]_vars

\* the caller cancelled while the first attempt awaited its response: no response
\* was received, one fetch was issued, the call has failed
C16_Witness ==
    /\ calls[1].phase = "done"
    /\ calls[1].userAbort = "AbortError"
    /\ ~calls[1].aborted
    /\ calls[1].attempt = 1
    /\ calls[1].fetches = 1
    /\ calls[1].status = 0
    /\ calls[1].result = AdoTimeoutError(1, 1)

(***************************************************************************)
(* Properties of the client operations                                     *)
(***************************************************************************)
\* C17: the loader of listWorkItemUpdatesPaged issues at most 201 requests, one more
\* only after a page that carries a continuation token, and then ends: it returns
\* when a page carries no token, having collected the updates of every page received,
\* which it does whenever the history has at most 200 pages and no request or page
\* fails; it throws the paging-safety error on the 201st page.
C17_PagingTerminates ==
    /\ [](pager.requests <= PagingSafetyLimit + 1 /\ pager.safety <= pager.requests)
    /\ [](pager.phase = "returned" =>
            /\ pager.safety = pager.requests
            /\ pager.requests <= PagingSafetyLimit
            /\ ~pager.more
            /\ pager.all = pager.served)
    /\ [](pager.phase = "failed" =>
            (pager.error = "safety" <=> pager.safety = PagingSafetyLimit + 1))
    /\ [][pager'.requests > pager.requests =>
            /\ pager'.requests = pager.requests + 1
            /\ pager.phase = "idle" \/ pager'.more]_vars
    /\ (pager.phase = "fetching") ~> (pager.phase \in {"returned", "failed"})

\* a history of exactly 200 pages has been returned whole
C17_Witness ==
    /\ pager.phase = "returned"
    /\ pager.requests = 200
    /\ pager.all = pager.served
    /\ pager.all >= 200

\* the number of times id occurs in seq
Occurrences(seq, id) == Cardinality({i \in 1..Len(seq) : seq[i] = id})

\* the ids of a call whose chunks have all been answered, and what they were answered
\* with, chunk after chunk
AnsweredWith == Flat(batch.results, Len(batch.results))

\* C18: what getWorkItemsBatch returns is ordered by the position of the items' ids in
\* the input, holds every returned item whose id is in the input, as many times as it
\* was returned, and no other item, whatever order the remote lists the items in and
\* whatever order the chunks are answered in; an empty input returns the empty list
\* and makes no request.
C18_BatchInInputOrder ==
    batch.phase = "returned" =>
        \A ids \in {batch.ids}, result \in {batch.result}, answered \in {AnsweredWith} :
           /\ \A i \in 1..(Len(result) - 1) :
                 LastIndexOf(ids, result[i]) <= LastIndexOf(ids, result[i + 1])
           /\ \A i \in 1..Len(result) : \E j \in 1..Len(ids) : ids[j] = result[i]
           /\ \A id \in {ids[j] : j \in 1..Len(ids)} :
                 Occurrences(result, id) = Occurrences(answered, id)
           /\ ids = <<>> => result = <<>> /\ batch.requests = 0

\* two chunks, each listed in reverse by the remote with an item that was not asked
\* for: the call has returned the 201 items in input order
C18_Witness ==
    /\ batch.phase = "returned"
    /\ Len(batch.ids) = 201
    /\ batch.result = batch.ids
    /\ Len(AnsweredWith) = 203
    /\ AnsweredWith[1] = ForeignId
    /\ AnsweredWith[2] = batch.ids[200]

(***************************************************************************)
(* List operations: validation of the elements and of the shape            *)
(***************************************************************************)
\* the loader of the answer was given an array (bare or under value) with an element
\* that fails the schema
HasInvalidElement(answer) ==
    /\ answer.json.shape \in {"array", "value"}
    /\ answer.json.bad > 0

\* the key a loader invocation loads, also once nothing awaits it any more
KeyOfLoad(l) ==
    IF loads[l] = DoneLoad THEN lister.answers[l].key ELSE loads[l].key

\* the last loader invocation for key, 0 if there was none
LastLoadOf(key) ==
    LET of == {l \in 1..Len(loads) : KeyOfLoad(l) = key}
    IN IF of = {} THEN 0 ELSE CHOOSE l \in of : \A m \in of : m <= l

C19_Step ==
    /\ \A l \in 1..Len(loads) :
          /\ (op'.kind = "settle" /\ op'.load = l /\ loads[l].state = Pending
                 /\ HasInvalidElement(lister'.answers[l])) =>
                /\ lister'.answers[l].thrown = "ZodError"
                /\ op'.outcome = Rejected
                /\ store' = store
          /\ (op'.kind = "resume" /\ op'.load = l /\ loads[l] # DoneLoad
                 /\ HasInvalidElement(lister.answers[l])) =>
                /\ op'.outcome = Rejected
                /\ store' = store
                /\ ~StoreHas(store', loads[l].key)
                /\ inFlight'[loads[l].key] = 0
    /\ \A key \in Keys :
          (/\ IsGet(key)
           /\ LastLoadOf(key) # 0
           /\ loads[LastLoadOf(key)] = DoneLoad
           /\ HasInvalidElement(lister.answers[LastLoadOf(key)])) =>
             /\ op'.path = "load"
             /\ Len(loads') = Len(loads) + 1
             /\ loads'[Len(loads')].state = Pending

\* C19: when an element of the array a list operation received fails the schema, the
\* loader throws (a ZodError) and every caller of the operation gets that failure and
\* no list; the cache stores nothing for the key and keeps no promise for it, so that
\* the next call for the key invokes the loader, and with it the fetch, again.
C19_InvalidElementFailsWhole == [][C19_Step]_vars

\* a load answered with two elements, one of them invalid, has failed and its caller
\* has resumed; a later call for the same key has started a second load
C19_Witness ==
    /\ Len(loads) = 2
    /\ loads[1] = DoneLoad
    /\ lister.answers[1].json = [shape |-> "value", count |-> 2, bad |-> 1]
    /\ lister.answers[1].thrown = "ZodError"
    /\ op.kind = "getOrSet"
    /\ op.path = "load"
    /\ op.load = 2
    /\ op.key = lister.answers[1].key
    /\ store = <<>>

\* C20: a body that is neither an array nor an object whose value field is an array
\* makes the loader throw the invalid-response-shape error: its promise never resolves
\* to a list, so nothing is returned or stored for it.
C20_BadShapeIsShapeError ==
    \A l \in 1..Len(loads) :
        lister.answers[l].json.shape = "other" =>
            /\ lister.answers[l].thrown = "Invalid response shape"
            /\ loads[l].state.kind # "value"
            /\ LastLoadOf(lister.answers[l].key) = l => ~StoreHas(store, lister.answers[l].key)

(***************************************************************************)
(* listWorkItemUpdatesPaged: order of the result                           *)
(***************************************************************************)
\* the key the updates are said to be sorted by: the parsed timestamp, 0 when the
\* revision date is missing or cannot be parsed
EpochKey(d) == IF d.kind = "date" THEN d.ms ELSE 0

\* C21: the list listWorkItemUpdatesPaged returns is in non-decreasing order of the
\* parsed revision timestamp, an update whose revision date is missing or cannot be
\* parsed counting as 0.
C21_SortedByEpochKey ==
    sorter.phase = "returned" =>
        \A i \in 1..Len(sorter.result), j \in 1..Len(sorter.result) :
            i < j => EpochKey(sorter.result[i]) <= EpochKey(sorter.result[j])

(***************************************************************************)
(* listPullRequests: merge and deduplication                                *)
(***************************************************************************)
\* the results of the searches, concatenated in the order of the targets
MergedInTargetOrder == Flat(prs.results, Len(prs.results))

\* the first position of id in seq
FirstIndexOf(seq, id) ==
    CHOOSE i \in 1..Len(seq) : seq[i] = id /\ \A j \in 1..(i - 1) : seq[j] # id

\* C22: listPullRequests returns every id some search returned, exactly once, in the
\* order of first occurrence in the concatenation of the searches' results taken in
\* targetRefs order, in whatever order the searches complete; without targetRefs (or
\* with an empty list) the one search is for refs/heads/main.
C22_DedupedInFirstSeenOrder ==
    /\ prs.phase # "idle" =>
          /\ Len(prs.results) = Len(prs.targets)
          /\ (~prs.input.given \/ prs.input.refs = <<>>) => prs.targets = <<DefaultTargetRef>>
          /\ (prs.input.given /\ prs.input.refs # <<>>) => prs.targets = prs.input.refs
    /\ prs.phase = "returned" =>
          \A merged \in {MergedInTargetOrder}, result \in {prs.result} :
             /\ \A i \in 1..Len(result), j \in 1..Len(result) :
                   i < j => /\ result[i] # result[j]
                            /\ FirstIndexOf(merged, result[i]) < FirstIndexOf(merged, result[j])
             /\ {result[i] : i \in 1..Len(result)} = {merged[i] : i \in 1..Len(merged)}

\* two targets answered in reverse order with overlapping lists: the id both list is
\* returned once, at the place the first target gives it
C22_Witness ==
    /\ prs.phase = "returned"
    /\ prs.targets = <<"refs/heads/dev", DefaultTargetRef>>
    /\ prs.completed = <<2, 1>>
    /\ prs.results[1].items = <<2, 1>>
    /\ prs.results[2].items = <<3, 1>>
    /\ prs.result = <<2, 1, 3>>

(***************************************************************************)
(* listGraphUsers: bypass                                                   *)
(***************************************************************************)
C23_Step ==
    op'.kind = "getOrSet" =>
        \* with bypass: the loader is invoked, nothing is read from or written to the cache
        /\ graph'.asked =>
              /\ op'.path = "bypass"
              /\ Len(loads') = Len(loads) + 1
              /\ store' = store
              /\ inFlight' = inFlight
        \* without bypass, a usable entry is returned
        /\ (~graph'.asked /\ Usable(GraphUsersKey)) =>
              /\ op'.path = "hit"
              /\ loads' = loads

\* C23: listGraphUsers called with bypass = true always invokes its loader and neither
\* reads nor writes the cache; called without bypass while an entry stored by an
\* earlier call is within its TTL, it returns that entry.
C23_BypassAlwaysFetches == [][C23_Step]_vars

(***************************************************************************)
(* buildSegments                                                            *)
(***************************************************************************)
\* C24: every segment buildSegments returns, with or without a window, starts
\* strictly before it ends.
C24_NoZeroDurationSegment ==
    timeline.phase = "returned" =>
        \A i \in 1..Len(timeline.result) :
            timeline.result[i].tStart < timeline.result[i].tEnd

\* the time values of the updates whose revisedDate can be parsed
ParseableTimes(updates) ==
    {toDate(updates[i].revisedDate)[1] :
        i \in {j \in 1..Len(updates) : ~IsNaN(toDate(updates[j].revisedDate))}}

Earliest(times) == CHOOSE t \in times : \A u \in times : t <= u
Latest(times) == CHOOSE t \in times : \A u \in times : u <= t

\* C25: without a window the segments are in ascending time order and tile the
\* observed history: each ends where the next starts, every segment but the last has
\* a positive duration, the first starts at the earliest parseable timestamp and the
\* last ends at the latest; the updates whose timestamp cannot be parsed change
\* nothing (without any parseable update the result is empty).
C25_SegmentsTileHistory ==
    (timeline.phase = "returned" /\ ~timeline.window.given) =>
        \A result \in {timeline.result}, times \in {ParseableTimes(timeline.updates)} :
           /\ times = {} => result = <<>>
           /\ times # {} =>
                 /\ Len(result) >= 1
                 /\ result[1].tStart = Earliest(times)
                 /\ result[Len(result)].tEnd = Latest(times)
                 /\ \A i \in 1..Len(result) : result[i].tStart <= result[i].tEnd
                 /\ \A i \in 1..(Len(result) - 1) :
                       /\ result[i].tEnd = result[i + 1].tStart
                       /\ result[i].tStart < result[i].tEnd
           /\ result = IF times = {} THEN <<>>
                       ELSE buildBaseSegments(groupEvents(normalizeAndSort(
                               SelectSeq(timeline.updates,
                                         LAMBDA u : ~IsNaN(toDate(u.revisedDate))))))

\* updates given latest first with an unparseable one in between: two segments from
\* the earliest to the latest time
C25_Witness ==
    /\ timeline.phase = "returned"
    /\ ~timeline.window.given
    /\ Len(timeline.updates) = 3
    /\ timeline.updates[1].revisedDate = [kind |-> "date", ms |-> 3]
    /\ timeline.updates[2].revisedDate.kind = "garbage"
    /\ timeline.updates[3].revisedDate = [kind |-> "date", ms |-> 1]
    /\ Len(timeline.result) = 2
    /\ timeline.result[1].tStart = 1
    /\ timeline.result[1].tEnd = 3
    /\ timeline.result[2].tStart = 3
    /\ timeline.result[2].tEnd = 3

\* the value of a field (stateRaw or assignee) last specified by the events up to the
\* k-th, <<>> if none has
LastSpecified(events, k, field) ==
    LET at == {j \in 1..k : events[j][field] # <<>>}
    IN IF at = {} THEN <<>> ELSE events[CHOOSE j \in at : \A l \in at : l <= j][field]

\* the effective (normalized state, assignee) pair once the k-th event has happened
PairAt(events, k) ==
    <<normalizeState(LastSpecified(events, k, "stateRaw"), Mapping),
      LastSpecified(events, k, "assignee")>>

\* the times of the events at which the effective pair changes
ChangeTimes(events) ==
    {events[k].date : k \in {j \in 2..Len(events) : PairAt(events, j) # PairAt(events, j - 1)}}

\* C26: a boundary lies at an event exactly when the effective (normalized state,
\* assignee) pair after the event differs from the pair before it: consecutive
\* segments never carry the same pair, and without a window there is one segment per
\* maximal run of events with the same pair.
C26_BoundaryOnlyOnChange ==
    timeline.phase = "returned" =>
        \A result \in {timeline.result}, events \in {timeline.events} :
           /\ \A i \in 1..(Len(result) - 1) :
                 <<result[i].state, result[i].assignee>>
                    # <<result[i + 1].state, result[i + 1].assignee>>
           /\ (~timeline.window.given /\ Len(events) > 0) =>
                 /\ {result[i].tStart : i \in 2..Len(result)} = ChangeTimes(events)
                 /\ Len(result) = 1 + Cardinality(ChangeTimes(events))
                 /\ \A i \in 1..Len(result) :
                       \E k \in 1..Len(events) :
                          /\ events[k].date = result[i].tStart
                          /\ PairAt(events, k) = <<result[i].state, result[i].assignee>>

\* t1: state closed; t2: state Closed and assignee X; t3: state New. The boundaries
\* are t2 (the assignee changes, the normalized state does not) and t3.
C26_Witness ==
    /\ timeline.phase = "returned"
    /\ ~timeline.window.given
    /\ Len(timeline.updates) = 3
    /\ \A i \in 1..3 : timeline.updates[i].revisedDate = [kind |-> "date", ms |-> i]
    /\ timeline.updates[1].state = <<" closed ">> /\ timeline.updates[1].assignedTo = <<>>
    /\ timeline.updates[2].state = <<"Closed">> /\ timeline.updates[2].assignedTo = <<"X">>
    /\ timeline.updates[3].state = <<"New">> /\ timeline.updates[3].assignedTo = <<>>
    /\ timeline.result =
          <<Segment("done", <<>>, 1, 2), Segment("done", <<"X">>, 2, 3),
            Segment("toDo", <<"X">>, 3, 3)>>

\* the value of a field that the updates with time t specify last in input order,
\* <<>> if none of them specifies it
LastGivenAt(updates, t, Extract(_)) ==
    LET at == {i \in 1..Len(updates) :
                  /\ toDate(updates[i].revisedDate) = Num(t)
                  /\ Extract(updates[i]) # <<>>}
    IN IF at = {} THEN <<>> ELSE Extract(updates[CHOOSE i \in at : \A j \in at : j <= i])

\* C27: the updates with the same revision timestamp form one event: the events have
\* pairwise different times, in ascending order, no two segments start at the same
\* time, and an event's state (assignee) is the one given by the update latest in
\* input order among the updates of that time that specify a state (an assignee).
C27_SameTimeMergedLastWins ==
    timeline.phase = "returned" =>
        \A updates \in {timeline.updates}, events \in {timeline.events} :
           /\ \A k \in 1..(Len(events) - 1) : events[k].date < events[k + 1].date
           /\ \A i \in 1..Len(timeline.base), j \in 1..Len(timeline.base) :
                 i # j => timeline.base[i].tStart # timeline.base[j].tStart
           /\ ParseableTimes(updates) # {} =>
                 {events[k].date : k \in 1..Len(events)} = ParseableTimes(updates)
           /\ \A k \in 1..Len(events) :
                 /\ events[k].stateRaw =
                       LastGivenAt(updates, events[k].date, LAMBDA u : extractState(u.state))
                 /\ events[k].assignee =
                       LastGivenAt(updates, events[k].date,
                                   LAMBDA u : extractAssignee(u.assignedTo))

\* three updates of one time: state New, then state closed, then assignee Y only; the
\* one event has state closed and assignee Y, and there is one segment
C27_Witness ==
    /\ timeline.phase = "returned"
    /\ ~timeline.window.given
    /\ Len(timeline.updates) = 3
    /\ \A i \in 1..3 : timeline.updates[i].revisedDate = [kind |-> "date", ms |-> 2]
    /\ timeline.updates[1].state = <<"New">>
    /\ timeline.updates[2].state = <<" closed ">>
    /\ timeline.updates[3].state = <<>> /\ timeline.updates[3].assignedTo = <<"Y">>
    /\ timeline.events = <<[date |-> 2, stateRaw |-> <<"closed">>, assignee |-> <<"Y">>]>>
    /\ timeline.result = <<Segment("done", <<"Y">>, 2, 2)>>

\* the segment of base that is open once the event of time t has happened: the last
\* one that starts at or before t
SegmentAt(base, t) ==
    base[CHOOSE i \in 1..Len(base) :
            /\ base[i].tStart <= t
            /\ \A j \in 1..Len(base) : base[j].tStart <= t => j <= i]

\* C28: an event that specifies a state sets the state (normalized) and one that does
\* not leaves it as it was, "unknown" before any state was specified; likewise an
\* event sets the assignee only when it specifies one, and the assignee is unset
\* before any was specified.
C28_CarryForward ==
    (timeline.phase = "returned" /\ Len(timeline.events) > 0) =>
        \A base \in {timeline.base}, events \in {timeline.events} :
           \A k \in 1..Len(events) :
              \A after \in {SegmentAt(base, events[k].date)} :
                 /\ events[k].stateRaw # <<>> =>
                       after.state = normalizeState(events[k].stateRaw, Mapping)
                 /\ events[k].assignee # <<>> => after.assignee = events[k].assignee
                 /\ (events[k].stateRaw = <<>> /\ k = 1) => after.state = UNKNOWN_STATE
                 /\ (events[k].assignee = <<>> /\ k = 1) => after.assignee = <<>>
                 /\ (events[k].stateRaw = <<>> /\ k > 1) =>
                       after.state = SegmentAt(base, events[k - 1].date).state
                 /\ (events[k].assignee = <<>> /\ k > 1) =>
                       after.assignee = SegmentAt(base, events[k - 1].date).assignee

\* t1 gives assignee Y only, t2 state New only, t3 state Closed and assignee X: the
\* state is unknown until t2, the assignee stays Y through t2
C28_Witness ==
    /\ timeline.phase = "returned"
    /\ ~timeline.window.given
    /\ Len(timeline.updates) = 3
    /\ \A i \in 1..3 : timeline.updates[i].revisedDate = [kind |-> "date", ms |-> i]
    /\ timeline.updates[1].state = <<>> /\ timeline.updates[1].assignedTo = <<"Y">>
    /\ timeline.updates[2].state = <<"New">> /\ timeline.updates[2].assignedTo = <<>>
    /\ timeline.updates[3].state = <<"Closed">> /\ timeline.updates[3].assignedTo = <<"X">>
    /\ timeline.result =
          <<Segment(UNKNOWN_STATE, <<"Y">>, 1, 2), Segment("toDo", <<"Y">>, 2, 3),
            Segment("done", <<"X">>, 3, 3)>>

\* the part of segment sg inside [from, to)
StartIn(sg, win) == IF sg.tStart > win.from THEN sg.tStart ELSE win.from
EndIn(sg, win) == IF sg.tEnd < win.to THEN sg.tEnd ELSE win.to

\* C29: with a window, buildSegments returns the intersections of positive length of
\* the unclipped segments with the window, in order, with state and assignee
\* unchanged; nothing it returns reaches outside the window, and a window whose to
\* is not after its from gives no segment.
C29_ClippedToWindow ==
    (timeline.phase = "returned" /\ timeline.window.given) =>
        \A result \in {timeline.result}, base \in {timeline.base}, win \in {timeline.window} :
           /\ win.to <= win.from => result = <<>>
           /\ \A i \in 1..Len(result) :
                 /\ win.from <= result[i].tStart
                 /\ result[i].tStart < result[i].tEnd
                 /\ result[i].tEnd <= win.to
                 /\ \E j \in 1..Len(base) :
                       result[i] = Segment(base[j].state, base[j].assignee,
                                           StartIn(base[j], win), EndIn(base[j], win))
           /\ \A i \in 1..(Len(result) - 1) : result[i].tEnd <= result[i + 1].tStart
           /\ win.from < win.to =>
                 Len(result) = Cardinality({j \in 1..Len(base) :
                                               StartIn(base[j], win) < EndIn(base[j], win)})

\* segments [1, 3) toDo and [3, 3) done clipped to the window [2, 3): the first is
\* truncated at 2, the second dropped
C29_Witness ==
    /\ timeline.phase = "returned"
    /\ timeline.window = [given |-> TRUE, from |-> 2, to |-> 3]
    /\ timeline.base = <<Segment("toDo", <<>>, 1, 3), Segment("done", <<"X">>, 3, 3)>>
    /\ timeline.result = <<Segment("toDo", <<>>, 2, 3)>>

(***************************************************************************)
(* computeWorkItemMetrics                                                   *)
(***************************************************************************)
\* some segment with state done comes right after a segment with another state
EntersDone(segments) ==
    \E i \in 2..Len(segments) :
        segments[i].state = "done" /\ segments[i - 1].state # "done"

IndexesOf(segments, state) == {i \in 1..Len(segments) : segments[i].state = state}

\* the start of the first segment with the given state (there is one)
FirstEntry(segments, state) ==
    segments[CHOOSE i \in IndexesOf(segments, state) :
                \A j \in IndexesOf(segments, state) : i <= j].tStart

\* C31 (as stated): leadTimeMs is the start of the first done segment minus the
\* creation time, and is undefined exactly when no segment is done.
C31_LeadTimeIsDifference ==
    metrics.phase = "returned" =>
        IF IndexesOf(metrics.segments, "done") = {}
        THEN IsNaN(metrics.result.leadTimeMs)
        ELSE metrics.result.leadTimeMs =
                Num(FirstEntry(metrics.segments, "done") - metrics.createdAt)

\* C31 (amended): leadTimeMs is the start of the first done segment minus the creation
\* time, or 0 when the item was created after that start; it is undefined exactly
\* when no segment is done; toDo[0,10), inProgress[10,20), done[20,30) created at 0
\* gives leadTimeMs 20, cycleTimeMs 10, throughput 1, completed, reworkCount 0.
C31_LeadTimeClamped ==
    metrics.phase = "returned" =>
        /\ IF IndexesOf(metrics.segments, "done") = {}
           THEN IsNaN(metrics.result.leadTimeMs)
           ELSE \A diff \in {FirstEntry(metrics.segments, "done") - metrics.createdAt} :
                   metrics.result.leadTimeMs = Num(IF diff < 0 THEN 0 ELSE diff)
        /\ ( /\ metrics.segments = <<Segment("toDo", <<>>, 0, 10),
                                      Segment("inProgress", <<>>, 10, 20),
                                      Segment("done", <<>>, 20, 30)>>
             /\ metrics.createdAt = 0 )
           => /\ metrics.result.leadTimeMs = Num(20)
              /\ metrics.result.cycleTimeMs = Num(10)
              /\ metrics.result.throughput = 1
              /\ metrics.result.completed
              /\ metrics.result.reworkCount = 0

\* the item was created at 15 and first done at 10: the lead time is 0
C31_Witness ==
    /\ metrics.phase = "returned"
    /\ metrics.createdAt = 15
    /\ Len(metrics.segments) = 2
    /\ metrics.segments[2] = Segment("done", <<>>, 10, 20)
    /\ metrics.result.leadTimeMs = Num(0)

\* the adjacent pairs (done, not done)
LeavesDone(segments) ==
    {i \in 1..(Len(segments) - 1) :
        segments[i].state = "done" /\ segments[i + 1].state # "done"}

C33_CycleTimeOnlyForward ==
    metrics.phase = "returned" =>
        IF /\ IndexesOf(metrics.segments, "done") # {}
           /\ IndexesOf(metrics.segments, "inProgress") # {}
           /\ FirstEntry(metrics.segments, "done") >=
                 FirstEntry(metrics.segments, "inProgress")
        THEN /\ metrics.result.cycleTimeMs =
                    Num(FirstEntry(metrics.segments, "done")
                          - FirstEntry(metrics.segments, "inProgress"))
             /\ metrics.result.cycleTimeMs[1] >= 0
        ELSE IsNaN(metrics.result.cycleTimeMs)

\* done at 0 and in progress only from 10: no cycle time
C33_Witness ==
    /\ metrics.phase = "returned"
    /\ Len(metrics.segments) = 2
    /\ metrics.segments[1] = Segment("done", <<>>, 0, 10)
    /\ metrics.segments[2] = Segment("inProgress", <<>>, 10, 20)
    /\ IsNaN(metrics.result.cycleTimeMs)

(***************************************************************************)
(* computeAuthoredMetrics                                                   *)
(***************************************************************************)
\* the pull request has policy evaluations of the reviewer category
HasReviewerPolicyData(pr) ==
    \E i \in DOMAIN pr.policies : pr.policies[i].displayName = "Minimum number of reviewers"

\* one of them is approved
HasApprovedReviewerPolicy(pr) ==
    \E i \in DOMAIN pr.policies :
        /\ pr.policies[i].displayName = "Minimum number of reviewers"
        /\ pr.policies[i].status = "approved"

\* it has reviewers and each of them voted 5 or more
AllReviewersApproved(pr) ==
    /\ Len(pr.reviewers) > 0
    /\ \A i \in DOMAIN pr.reviewers : pr.reviewers[i].vote >= 5

\* the pull requests passed that are not drafts
NonDrafts == {i \in DOMAIN authored.prs : ~authored.prs[i].isDraft}

\* C34: a pull request gives a time-to-approval sample through the votes of its
\* reviewers only if it has no policy evaluation of the reviewer category and every
\* reviewer voted 5 or more; one with reviewer policy evaluations, none approved,
\* gives no sample.
C34_FallbackOnlyWithoutPolicyData ==
    authored.phase = "returned" =>
        authored.result.locals.approveN <=
            Cardinality({i \in NonDrafts :
                            \/ HasApprovedReviewerPolicy(authored.prs[i])
                            \/ /\ ~HasReviewerPolicyData(authored.prs[i])
                               /\ AllReviewersApproved(authored.prs[i])})

\* C35: a pull request whose comments are all by its author adds nothing to the number
\* of TTFR samples, and ttfrAvgMs is null when no included pull request adds one.
C35_SelfCommentsNoResponse ==
    authored.phase = "returned" =>
        /\ authored.result.locals.ttfrN <=
              Cardinality({i \in NonDrafts :
                              \E j \in DOMAIN authored.prs[i].comments :
                                  authored.prs[i].comments[j].author
                                      # authored.prs[i].createdBy})
        /\ authored.result.locals.ttfrN = 0 => IsNaN(authored.result.ttfrAvgMs)
        /\ authored.result.locals.ttfrN > 0 => ~IsNaN(authored.result.ttfrAvgMs)

\* one pull request, commented after its creation by its author alone: no sample
C35_Witness ==
    /\ authored.phase = "returned"
    /\ Len(authored.prs) = 1
    /\ ~authored.prs[1].isDraft
    /\ Len(authored.prs[1].comments) = 2
    /\ \A j \in {1, 2} : /\ authored.prs[1].comments[j].author = "a"
                         /\ authored.prs[1].comments[j].publishedDate = 3
    /\ authored.result.count = 1
    /\ authored.result.locals.ttfrN = 0
    /\ IsNaN(authored.result.ttfrAvgMs)

(***************************************************************************)
(* configureCache                                                           *)
(***************************************************************************)
\* what a call configureCache({maxEntries: h / 2}) must have done
C36_Step(h) ==
    configureCache(h) =>
        \A cap \in {IF h \div 2 < 1 THEN 1 ELSE h \div 2} :
            /\ maxEntries' = cap
            /\ Len(store') <= cap
            /\ Len(store') = (IF Len(store) < cap THEN Len(store) ELSE cap)
            /\ store' = SubSeq(store, Len(store) - Len(store') + 1, Len(store))

\* C36: configureCache sets the capacity to max(1, floor(maxEntries)) and leaves at
\* most that many entries: the most recently used ones, with their values and expiry
\* times, in the order they had.
C36_ConfigureTrimsToCapacity == [][\A h \in MaxEntriesHalves : C36_Step(h)]_vars

\* three keys were loaded and configureCache({maxEntries: 0.5}) has just run: the
\* key stored last is the one entry left
C36_Witness ==
    /\ op.kind = "configureCache"
    /\ maxEntries = 1
    /\ Len(store) = 1
    /\ store[1].key = 3
    /\ Len(loads) = 3
    /\ \A l \in 1..3 : loads[l] = DoneLoad

(***************************************************************************)
(* coalescing under a small capacity                                        *)
(***************************************************************************)
\* the loader invocations for key k whose call has not resumed yet
Unfinished(k) == {l \in 1..Len(loads) : loads[l] # DoneLoad /\ loads[l].key = k}

C40_Step(k) ==
    /\ \* a call for a key whose load is in flight joins it: no loader invocation
       (inFlight[k] # 0 /\ IsGet(k)) =>
           /\ op'.path = "join"
           /\ op'.load = inFlight[k]
           /\ Len(loads') = Len(loads)
    /\ \* what happens to the other keys leaves the marker of k alone
       (op'.kind \in {"resume", "getOrSet"} /\ op'.key # k) => inFlight'[k] = inFlight[k]
    /\ op'.kind \in {"configureCache", "settle", "tick"} => inFlight'[k] = inFlight[k]
    /\ \* the value of k is stored as the most recently used entry, whatever was evicted
       (op'.kind = "resume" /\ op'.key = k /\ op'.outcome.kind = "value") =>
           /\ Len(store') >= 1
           /\ store'[Len(store')].key = k
           /\ store'[Len(store')].value = op'.outcome.value
           /\ inFlight'[k] = 0

\* C40: whatever the capacity, a key has at most one loader invocation in flight: while
\* it is, calls for the key join it, the loads of other keys complete and evict without
\* touching its marker, and when it completes its value is stored as the most recently
\* used entry.
C40_CoalescingWhateverCapacity ==
    /\ [](\A k \in LruKeys : Cardinality(Unfinished(k)) <= 1)
    /\ [][\A k \in LruKeys : C40_Step(k)]_vars

\* capacity 1: the load of key 1 was started first and joined by another call; the
\* loads of two other keys completed before it did, and its value is the entry left
C40_Witness ==
    /\ maxEntries = 1
    /\ op.kind = "resume"
    /\ op.load = 1
    /\ op.key = 1
    /\ op.joined
    /\ Len(loads) = 3
    /\ \A l \in 1..3 : loads[l] = DoneLoad
    /\ Len(store) = 1
    /\ store[1].key = 1
    /\ store[1].value = 1

(***************************************************************************)
(* businessDuration                                                         *)
(***************************************************************************)
\* the minutes after midnight a clock text stands for, -1 if it is not a clock time
ClockMinutes(text) ==
    CASE text = <<"0", "9", ":", "0", "0">> -> 9 * 60
      [] text = <<" ", "0", "9", ":", "0", "0">> -> 9 * 60
      [] text = <<"1", "7", ":", "0", "0">> -> 17 * 60
      [] text = <<"1", "7", ":", "0", "0", " ">> -> 17 * 60
      [] text = <<"1", "7", ":", "3", "0">> -> 17 * 60 + 30
      [] OTHER -> -1

\* the half hours [q * 30 min, (q + 1) * 30 min) of the first week of 1970 and the next
HalfHours == 0..(14 * 48 - 1)

\* the half hour q lies in the work window of a day of the schedule
IsBusinessHalfHour(q, schedule) ==
    /\ \E i \in DOMAIN schedule.days : schedule.days[i] = (4 + (q \div 48)) % 7
    /\ ClockMinutes(schedule.start) >= 0
    /\ ClockMinutes(schedule.end) >= 0
    /\ ClockMinutes(schedule.start) <= (q % 48) * 30
    /\ (q % 48) * 30 < ClockMinutes(schedule.end)

\* the half hours of [start, end) that are business time
BusinessHalfHours(start, end, schedule) ==
    {q \in HalfHours : /\ start <= q * 1800000
                       /\ q * 1800000 < end
                       /\ IsBusinessHalfHour(q, schedule)}

\* C37: businessDuration is the time of [start, end) that lies in the work window of a
\* day of the schedule, summed over the days from start's to end's; the other days give
\* nothing, Friday 16:00 to Monday 10:00 under Mon-Fri 09:00-17:00 gives 7,200,000 ms,
\* and an invalid or non-positive interval gives 0.
C37_BusinessTimeIsOverlapSum ==
    business.phase = "returned" =>
        /\ (IsNaN(business.start) \/ IsNaN(business.end)) => business.result = 0
        /\ (~IsNaN(business.start) /\ ~IsNaN(business.end)) =>
              /\ business.end[1] <= business.start[1] => business.result = 0
              /\ business.result =
                    1800000 * Cardinality(BusinessHalfHours(business.start[1],
                                                            business.end[1],
                                                            business.schedule))
        /\ ( /\ business.start = Num(144000000)
             /\ business.end = Num(381600000)
             /\ business.schedule.days = <<1, 2, 3, 4, 5>>
             /\ business.schedule.start = <<"0", "9", ":", "0", "0">>
             /\ business.schedule.end = <<"1", "7", ":", "0", "0">> )
           => business.result = 7200000

\* Friday 2 January 1970 16:00 to Monday 5 January 10:00 under Mon-Fri 09:00-17:00:
\* one hour on Friday, none at the weekend, one on Monday
C37_Witness ==
    /\ business.phase = "returned"
    /\ business.start = Num(144000000)
    /\ business.end = Num(381600000)
    /\ business.schedule.days = <<1, 2, 3, 4, 5>>
    /\ business.schedule.start = <<"0", "9", ":", "0", "0">>
    /\ business.schedule.end = <<"1", "7", ":", "0", "0">>
    /\ business.result = 7200000

(***************************************************************************)
(* computePersonRollups                                                     *)
(***************************************************************************)
\* the sample counts of a person: work items with a numeric id, authored pull requests
\* that are not drafts, reviewed pull requests the person took part in
SampleCounts(p) ==
    [workItems |-> Cardinality({i \in DOMAIN p.wis : p.wis[i].id # <<>>}),
     prAuthored |-> Cardinality({i \in DOMAIN p.prsAuth : ~p.prsAuth[i].isDraft}),
     prReviewed |-> Cardinality({i \in DOMAIN p.prsReviewed : p.prsReviewed[i].participated})]

\* the threshold in force, in halves: nThreshold rounded down to a whole number, and
\* not below 0
EffectiveHalves == CHOOSE t \in {0, 2, 4} :
                      \/ t = rollups.nThreshold
                      \/ t + 1 = rollups.nThreshold
                      \/ (t = 0 /\ rollups.nThreshold < 0)

\* the section is there exactly when its count reaches the threshold, and then it
\* carries that count
SectionRight(section, count) ==
    IF 2 * count >= EffectiveHalves
    THEN section # <<>> /\ section[1].count = count
    ELSE section = <<>>

\* C38: every person has exactly one entry, and each of its three sections is present
\* if and only if the sample count of that section is at least the threshold; a section
\* below it is absent, whatever the other two are.
C38_SectionsIffAtThreshold ==
    rollups.phase = "returned" =>
        /\ Len(rollups.items) = Len(rollups.people)
        /\ \A i \in DOMAIN rollups.people :
              /\ Cardinality({j \in DOMAIN rollups.items :
                                 rollups.items[j].person = rollups.people[i].person}) = 1
              /\ \A j \in DOMAIN rollups.items :
                    rollups.items[j].person = rollups.people[i].person =>
                        /\ SectionRight(rollups.items[j].workItems,
                                        SampleCounts(rollups.people[i]).workItems)
                        /\ SectionRight(rollups.items[j].prAuthored,
                                        SampleCounts(rollups.people[i]).prAuthored)
                        /\ SectionRight(rollups.items[j].prReviewed,
                                        SampleCounts(rollups.people[i]).prReviewed)

\* threshold 1, two people: bob has one work item and one authored pull request but
\* reviewed nothing, Ann has nothing; bob's entry holds two sections, Ann's none
C38_Witness ==
    /\ rollups.phase = "returned"
    /\ rollups.nThreshold = 2
    /\ Len(rollups.items) = 2
    /\ rollups.items[1].person.displayName = "Ann"
    /\ rollups.items[1].workItems = <<>>
    /\ rollups.items[1].prAuthored = <<>>
    /\ rollups.items[1].prReviewed = <<>>
    /\ rollups.items[2].person.displayName = "bob"
    /\ rollups.items[2].workItems # <<>>
    /\ rollups.items[2].prAuthored # <<>>
    /\ rollups.items[2].prReviewed = <<>>

(***************************************************************************)
(* the metrics of a period                                                  *)
(***************************************************************************)
\* the last update given effect is the transition into done: the history ends with a
\* done segment that starts at the time of the last event, after a segment in another
\* state
EndsEnteringDone(base, events) ==
    /\ Len(base) >= 2
    /\ base[Len(base)].state = "done"
    /\ base[Len(base)].tStart = events[Len(events)].date
    /\ base[Len(base) - 1].state # "done"

\* C39: when the last update of a work item is its transition into done, strictly
\* inside the window, the metrics of the clipped segments report completed and
\* throughput 1, as the metrics of the unclipped segments do.
C39_WindowKeepsCompletion ==
    ( /\ metrics.phase = "returned"
      /\ timeline.phase = "returned"
      /\ timeline.window.given
      /\ Len(timeline.events) > 0
      /\ EndsEnteringDone(timeline.base, timeline.events)
      /\ timeline.window.from < timeline.events[Len(timeline.events)].date
      /\ timeline.events[Len(timeline.events)].date < timeline.window.to )
    => /\ metrics.result.completed
       /\ metrics.result.throughput = 1
       /\ metrics.result.completed =
             computeWorkItemMetrics(timeline.base, metrics.createdAt).completed
       /\ metrics.result.throughput =
             computeWorkItemMetrics(timeline.base, metrics.createdAt).throughput

====
